---- MODULE Spec2Model ----
(***************************************************************************)
(* The telemetry ingestion pipeline of the dashboard (DataUpload.tsx) and  *)
(* the derived-segment analyzer (getLapTelemetry and friends).             *)
(*                                                                         *)
(* Text is a sequence of one-character strings.  Files are ASCII, so one   *)
(* byte of a Blob is one character of the decoded text.  A JavaScript      *)
(* number is the record [nan, m, e] standing for m / 10^e, or NaN.         *)
(***************************************************************************)
EXTENDS Integers, Sequences, FiniteSets, TLC

VARIABLES scan, asm, lapq, ui, grip, dna

vars == <<scan, asm, lapq, ui, grip, dna>>

LF == "\n"
CR == "\r"
COMMA == ","
DOT == "."
DASH == "-"

Null == <<"null">>

(* ------------------------------ bounds -------------------------------- *)

MaxScanLines == 2
MaxScanChunk == 3
MaxAsmRows == 3
AsmChunkStride == 7
MaxLapPoints == 2
MaxLaps == 2
UiChunkSize == 32
MaxRuns == 3
MaxReadErrors == 1

(* --------------------------- JavaScript numbers ------------------------ *)

NaN == [nan |-> TRUE, m |-> 0, e |-> 0]

RECURSIVE Pow10(_)
Pow10(k) == IF k = 0 THEN 1 ELSE 10 * Pow10(k - 1)

RECURSIVE Norm(_, _)
Norm(m, e) ==
    IF e > 0 /\ m % 10 = 0 THEN Norm(m \div 10, e - 1)
    ELSE [nan |-> FALSE, m |-> m, e |-> e]

Int2Num(i) == [nan |-> FALSE, m |-> i, e |-> 0]

isNaN(x) == x.nan

\* a < b on numbers; any comparison with NaN is false
NumLt(a, b) == ~a.nan /\ ~b.nan /\ a.m * Pow10(b.e) < b.m * Pow10(a.e)
NumLe(a, b) == ~a.nan /\ ~b.nan /\ a.m * Pow10(b.e) <= b.m * Pow10(a.e)
NumEq(a, b) == ~a.nan /\ ~b.nan /\ a.m * Pow10(b.e) = b.m * Pow10(a.e)

NumAdd(a, b) ==
    IF a.nan \/ b.nan THEN NaN
    ELSE LET e == IF a.e > b.e THEN a.e ELSE b.e
         IN  Norm(a.m * Pow10(e - a.e) + b.m * Pow10(e - b.e), e)

NumTimes(a, k) == IF a.nan THEN NaN ELSE Norm(a.m * k, a.e)

NumDiv100(a) == IF a.nan THEN NaN ELSE Norm(a.m, a.e + 2)

Digits == {"0", "1", "2", "3", "4", "5", "6", "7", "8", "9"}

DigitVal(c) ==
    CASE c = "0" -> 0 [] c = "1" -> 1 [] c = "2" -> 2 [] c = "3" -> 3
      [] c = "4" -> 4 [] c = "5" -> 5 [] c = "6" -> 6 [] c = "7" -> 7
      [] c = "8" -> 8 [] c = "9" -> 9

WhiteSpace == {" ", "\t", LF, CR}

\* String.prototype.trim
RECURSIVE TrimLeft(_)
TrimLeft(s) ==
    IF s # <<>> /\ Head(s) \in WhiteSpace THEN TrimLeft(Tail(s)) ELSE s

RECURSIVE TrimRight(_)
TrimRight(s) ==
    IF s # <<>> /\ s[Len(s)] \in WhiteSpace
    THEN TrimRight(SubSeq(s, 1, Len(s) - 1)) ELSE s

trim(s) == TrimRight(TrimLeft(s))

\* the length of the longest prefix of s made of digits
RECURSIVE DigitRun(_)
DigitRun(s) ==
    IF s # <<>> /\ Head(s) \in Digits THEN 1 + DigitRun(Tail(s)) ELSE 0

RECURSIVE DigitsVal(_, _)
DigitsVal(s, acc) ==
    IF s = <<>> THEN acc ELSE DigitsVal(Tail(s), 10 * acc + DigitVal(Head(s)))

\* parseFloat over the alphabet of digits, '.', letters and white space (no
\* sign, no exponent): leading white space is skipped, the longest prefix
\* digits[.digits] or .digits is the value, no such prefix is NaN.
parseFloat(str) ==
    LET s  == TrimLeft(str)
        ni == DigitRun(s)
        r  == SubSeq(s, ni + 1, Len(s))
        nf == IF r # <<>> /\ Head(r) = DOT THEN DigitRun(Tail(r)) ELSE 0
        ip == DigitsVal(SubSeq(s, 1, ni), 0)
        fp == DigitsVal(SubSeq(r, 2, nf + 1), 0)
    IN  IF ni = 0 /\ nf = 0 THEN NaN
        ELSE Norm(ip * Pow10(nf) + fp, nf)

\* parseInt (radix 10, same alphabet): the leading digits, NaN when none
parseInt(str) ==
    LET s  == TrimLeft(str)
        ni == DigitRun(s)
    IN  IF ni = 0 THEN NaN ELSE Int2Num(DigitsVal(SubSeq(s, 1, ni), 0))

(* ------------------------------ strings -------------------------------- *)

\* the k-th smallest element of a set of numbers
KthOf(S, k) == CHOOSE x \in S : Cardinality({y \in S : y < x}) = k - 1

\* the pieces of text between the separators that start at the positions
\* of S, the separator starting at p ending at sepEnd[p]
PiecesBetween(text, S, sepEnd) ==
    LET n == Cardinality(S)
        first(k) == IF k = 1 THEN 1 ELSE sepEnd[KthOf(S, k - 1)] + 1
        last(k)  == IF k = n + 1 THEN Len(text) ELSE KthOf(S, k) - 1
    IN  [k \in 1..(n + 1) |-> SubSeq(text, first(k), last(k))]

\* text.split(/\r\n|\n|\r/): at each position \r\n is tried before \n and
\* \r, so a \n right after a \r belongs to the separator the \r starts
SplitLines(text) ==
    LET S == {i \in 1..Len(text) :
                /\ text[i] \in {LF, CR}
                /\ ~(text[i] = LF /\ i > 1 /\ text[i - 1] = CR)}
        sepEnd == [i \in S |->
                     IF text[i] = CR /\ i < Len(text) /\ text[i + 1] = LF
                     THEN i + 1 ELSE i]
    IN  PiecesBetween(text, S, sepEnd)

\* line.split(sep) for a one-character separator
split(text, sep) ==
    LET S == {i \in 1..Len(text) : text[i] = sep}
    IN  PiecesBetween(text, S, [i \in S |-> i])

\* line.lastIndexOf(','), 1-based; 0 stands for JavaScript's -1
RECURSIVE LastIndexFrom(_, _, _)
LastIndexFrom(line, c, i) ==
    IF i = 0 THEN 0
    ELSE IF line[i] = c THEN i ELSE LastIndexFrom(line, c, i - 1)

lastIndexOf(line, c) == LastIndexFrom(line, c, Len(line))

\* line.substring(k) with k 0-based
substring(line, k) == SubSeq(line, k + 1, Len(line))

RECURSIVE Concat(_)
Concat(ss) == IF ss = <<>> THEN <<>> ELSE Head(ss) \o Concat(Tail(ss))

Min(a, b) == IF a < b THEN a ELSE b

Contains(seq, x) == \E i \in 1..Len(seq) : seq[i] = x

\* Set.prototype.add: a Set keeps insertion order and no duplicates
SetAdd(seq, x) == IF Contains(seq, x) THEN seq ELSE Append(seq, x)

NoDuplicates(seq) ==
    \A i, j \in 1..Len(seq) : i # j => seq[i] # seq[j]

Range(seq) == {seq[i] : i \in 1..Len(seq)}

\* Array.prototype.sort with comparator key(a) - key(b), on a sequence of
\* records [k |-> key, v |-> element]: stable when every key is a number;
\* the order is implementation-defined when a key is NaN (the comparator is
\* then inconsistent), so every permutation is possible.
RECURSIVE InsertSorted(_, _)
InsertSorted(sorted, x) ==
    IF sorted = <<>> THEN <<x>>
    ELSE IF NumLt(x.k, Head(sorted).k) THEN <<x>> \o sorted
    ELSE <<Head(sorted)>> \o InsertSorted(Tail(sorted), x)

RECURSIVE StableSortFrom(_, _)
StableSortFrom(seq, acc) ==
    IF seq = <<>> THEN acc
    ELSE StableSortFrom(Tail(seq), InsertSorted(acc, Head(seq)))

PermutationsOf(seq) ==
    {[i \in 1..Len(seq) |-> seq[p[i]]] : p \in Permutations(1..Len(seq))}

Values(keyed) == [i \in 1..Len(keyed) |-> keyed[i].v]

SortOutcomes(keyed) ==
    IF \E i \in 1..Len(keyed) : isNaN(keyed[i].k)
    THEN {Values(q) : q \in PermutationsOf(keyed)}
    ELSE {Values(StableSortFrom(keyed, <<>>))}

\* a component no specification at hand runs
ScanIdle == Null
AsmIdle == Null
LapIdle == Null
UiIdle == Null
GripIdle == Null
DnaIdle == Null

(* ----------------- scanTelemetryDrivers (discovery pass) ---------------- *)

Terminators == {<<LF>>, <<CR>>, <<CR, LF>>}

SeqsUpTo(S, n) == UNION {[1..k -> S] : k \in 0..n}

\* the lines a discovery file is made of: a blank line, a header, a header
\* whose trailing field is a number, rows of ids 3, 1.5 and 1.2, a row whose
\* trailing field is no number, a row whose id is preceded by a blank
ScanLineSet ==
    { <<>>,
      <<"h">>,
      <<"h", COMMA, "7">>,
      <<COMMA, "3">>,
      <<COMMA, "1", DOT, "5">>,
      <<COMMA, "1", DOT, "2">>,
      <<"z", COMMA, "x">>,
      <<"z", COMMA, " ", "3">> }

\* up to MaxScanLines terminated lines, then a last line with no terminator
\* (the empty last line is a file that ends in a terminator)
ScanFiles ==
    { Concat(body) \o last :
        body \in SeqsUpTo({l \o t : l \in ScanLineSet, t \in Terminators},
                          MaxScanLines),
        last \in ScanLineSet }

ScanStart(file, chunkSize) ==
    [ file       |-> file,
      CHUNK_SIZE |-> chunkSize,
      offset     |-> 0,
      leftover   |-> <<>>,
      drivers    |-> <<>>,
      emitted    |-> <<>>,
      pc         |-> "loop",
      driverList |-> <<>> ]

\* file.slice(offset, offset + CHUNK_SIZE) read as text
readChunk(file, offset, chunkSize) ==
    SubSeq(file, offset + 1, Min(offset + chunkSize, Len(file)))

\* the trailing field of a line: the text after its last comma, trimmed
TrailingField(line) == trim(substring(line, lastIndexOf(line, COMMA)))

\* val && val.length < 10 && !isNaN(parseFloat(val))
IsValidId(val) == val # <<>> /\ Len(val) < 10 /\ ~isNaN(parseFloat(val))

\* the body of the for loop of scanTelemetryDrivers for one line
ScanLine(drivers, line) ==
    IF trim(line) = <<>> THEN drivers
    ELSE IF lastIndexOf(line, COMMA) = 0 THEN drivers
    ELSE IF IsValidId(TrailingField(line))
         THEN SetAdd(drivers, TrailingField(line))
    ELSE drivers

RECURSIVE ScanLines(_, _)
ScanLines(drivers, lines) ==
    IF lines = <<>> THEN drivers
    ELSE ScanLines(ScanLine(drivers, Head(lines)), Tail(lines))

\* the lines array of one iteration, after the leftover is popped
ChunkLines(fullText, notLast) ==
    LET all == SplitLines(fullText)
    IN  IF notLast THEN SubSeq(all, 1, Len(all) - 1) ELSE all

\* the leftover never carried into the next chunk
ChunkLeftover_Dropped(fullText, notLast) == <<>>

\* leftover = lines.pop() || ''  unless this is the last chunk
ChunkLeftover(fullText, notLast) ==
    LET all == SplitLines(fullText)
    IN  IF notLast THEN all[Len(all)] ELSE <<>>

\* const startIndex = offset === 0 ? 1 : 0; the lines from startIndex on
FromStartIndex(lines, offset) ==
    IF offset = 0 THEN SubSeq(lines, 2, Len(lines)) ELSE lines

\* one iteration of the while loop of scanTelemetryDrivers
ScanIteration(s) ==
    LET text     == readChunk(s.file, s.offset, s.CHUNK_SIZE)
        fullText == s.leftover \o text
        notLast  == s.offset + s.CHUNK_SIZE < Len(s.file)
        lines    == ChunkLines(fullText, notLast)
    IN  [s EXCEPT !.leftover = ChunkLeftover(fullText, notLast),
                  !.emitted  = s.emitted \o lines,
                  !.drivers  = ScanLines(s.drivers,
                                         FromStartIndex(lines, s.offset)),
                  !.offset   = s.offset + s.CHUNK_SIZE]

\* Array.from(drivers).sort((a, b) => parseInt(a) - parseInt(b))
DriverListOutcomes(drivers) ==
    SortOutcomes([i \in 1..Len(drivers) |->
                    [k |-> parseInt(drivers[i]), v |-> drivers[i]]])


ScanInit ==
    /\ scan \in {ScanStart(f, c) : f \in ScanFiles, c \in 1..MaxScanChunk}
    /\ asm = AsmIdle
    /\ lapq = LapIdle
    /\ ui = UiIdle
    /\ grip = GripIdle
    /\ dna = DnaIdle

\* while (offset < file.size) { ... }
ScanChunk ==
    /\ scan.pc = "loop"
    /\ scan.offset < Len(scan.file)
    /\ scan' = ScanIteration(scan)
    /\ UNCHANGED <<asm, lapq, ui, grip, dna>>

\* the loop has ended: sort the set and return the list
ScanReturn ==
    /\ scan.pc = "loop"
    /\ scan.offset >= Len(scan.file)
    /\ \E list \in DriverListOutcomes(scan.drivers) :
          scan' = [scan EXCEPT !.pc = "done", !.driverList = list]
    /\ UNCHANGED <<asm, lapq, ui, grip, dna>>

ScanNext == ScanChunk \/ ScanReturn

SpecScan == ScanInit /\ [][ScanNext]_vars

(* C1: for a non-empty file, the lines arrays of the chunked loop,          *)
(* concatenated over all chunks, are the lines of the whole file split once *)
C1_ChunkedLinesAreWholeFileLines ==
    (scan.pc = "done" /\ scan.file # <<>>)
        => scan.emitted = SplitLines(scan.file)

\* the data lines of a file: every line after the first
DataLines(file) == Tail(SplitLines(file))

\* the valid trailing fields of the data lines of the whole file
FileIds(file) ==
    { TrailingField(l) :
        l \in { d \in Range(DataLines(file)) :
                  /\ lastIndexOf(d, COMMA) # 0
                  /\ IsValidId(TrailingField(d)) } }

(* C2: the scan returns exactly the distinct valid trailing fields of the  *)
(* lines after the header, whatever the chunk size                         *)
C2_ScanReturnsDataLineIds ==
    scan.pc = "done" => Range(scan.driverList) = FileIds(scan.file)

Ascending(nums) ==
    \A i, j \in 1..Len(nums) : i < j => NumLe(nums[i], nums[j])

(* C3: the returned list has no duplicates and is in ascending order of    *)
(* the numeric values of its ids                                           *)
C3_DriverListDistinctAscending ==
    scan.pc = "done" =>
        /\ NoDuplicates(scan.driverList)
        /\ Ascending([i \in 1..Len(scan.driverList) |->
                         parseFloat(scan.driverList[i])])

(* -------------- parseTelemetryForDriver (assembly pass) ---------------- *)

Undefined == [undef |-> TRUE]

AllDigits(s) == \A i \in 1..Len(s) : s[i] \in Digits

\* DayFromYear of ECMAScript: the day number of 1 January of year y
DayFromYear(y) ==
    365 * (y - 1970) + ((y - 1969) \div 4) - ((y - 1901) \div 100)
        + ((y - 1601) \div 400)

IsLeapYear(y) == (y % 4 = 0 /\ y % 100 # 0) \/ y % 400 = 0

\* the days of year y before its month m
RECURSIVE DaysBeforeMonth(_, _)
DaysBeforeMonth(y, m) ==
    IF m = 1 THEN 0
    ELSE DaysBeforeMonth(y, m - 1)
         + (IF m - 1 = 2 THEN (IF IsLeapYear(y) THEN 29 ELSE 28)
            ELSE IF m - 1 \in {4, 6, 9, 11} THEN 30 ELSE 31)

MakeTime(y, m, d) ==
    Int2Num((DayFromYear(y) + DaysBeforeMonth(y, m) + d - 1)
            * (24 * 60 * 60 * 1000))

\* new Date(str).getTime() for the date-only forms of the ECMAScript date
\* string format, which are UTC: YYYY, YYYY-MM and YYYY-MM-DD (with a day
\* every month has); a string made of letters, or the empty string, is an
\* invalid date: NaN.
DateGetTime(str) ==
    LET y == DigitsVal(SubSeq(str, 1, 4), 0)
        m == DigitsVal(SubSeq(str, 6, 7), 0)
        d == DigitsVal(SubSeq(str, 9, 10), 0)
        isY == Len(str) >= 4 /\ AllDigits(SubSeq(str, 1, 4))
        isM == /\ Len(str) >= 7 /\ str[5] = DASH
               /\ AllDigits(SubSeq(str, 6, 7)) /\ m \in 1..12
        isD == /\ Len(str) >= 10 /\ str[8] = DASH
               /\ AllDigits(SubSeq(str, 9, 10)) /\ d \in 1..28
    IN  IF Len(str) = 4 /\ isY THEN MakeTime(y, 1, 1)
        ELSE IF Len(str) = 7 /\ isY /\ isM THEN MakeTime(y, m, 1)
        ELSE IF Len(str) = 10 /\ isY /\ isM /\ isD THEN MakeTime(y, m, d)
        ELSE NaN

N_speed == <<"s", "p", "e", "e", "d">>
N_nmot == <<"n", "m", "o", "t">>
N_gear == <<"g", "e", "a", "r">>
N_ath == <<"a", "t", "h">>
N_pbrake_f == <<"p", "b", "r", "a", "k", "e", "_", "f">>
N_Steering_Angle ==
    <<"S", "t", "e", "e", "r", "i", "n", "g", "_", "A", "n", "g", "l", "e">>

AsmStart(parts, driverId, chunkSize) ==
    [ parts      |-> parts,
      file       |-> Concat(parts),
      driverId   |-> driverId,
      CHUNK_SIZE |-> chunkSize,
      offset     |-> 0,
      leftover   |-> <<>>,
      result     |-> <<>>,
      emitted    |-> <<>>,
      tempMap    |-> <<>>,
      pc         |-> "loop",
      sortedData |-> <<>> ]

\* the row filter without the comparison with the target id
RowDriverMatches_AnyVehicle(line, driverId) == TrailingField(line) # <<>>

\* rowDriver !== driverId, on the trimmed line
RowDriverMatches(line, driverId) == TrailingField(line) = driverId

\* the body of the for loop of parseTelemetryForDriver for one line:
\* result.push({ t: timestamp, n: name, v: value }) for an accepted row
AsmLine(result, rawLine, driverId) ==
    LET line == trim(rawLine)
        cols == split(line, COMMA)
    IN  IF line = <<>> THEN result
        ELSE IF lastIndexOf(line, COMMA) = 0 THEN result
        ELSE IF ~RowDriverMatches(line, driverId) THEN result
        ELSE IF Len(cols) < 11 THEN result
        ELSE IF cols[11] = <<>> THEN result
        ELSE Append(result,
                    [t |-> cols[11], n |-> cols[9], v |-> parseFloat(cols[10])])

RECURSIVE AsmLines(_, _, _)
AsmLines(result, lines, driverId) ==
    IF lines = <<>> THEN result
    ELSE AsmLines(AsmLine(result, Head(lines), driverId), Tail(lines), driverId)

\* one iteration of the while loop of parseTelemetryForDriver
AsmIteration(a) ==
    LET text     == readChunk(a.file, a.offset, a.CHUNK_SIZE)
        fullText == a.leftover \o text
        notLast  == a.offset + a.CHUNK_SIZE < Len(a.file)
        lines    == ChunkLines(fullText, notLast)
    IN  [a EXCEPT !.leftover = ChunkLeftover(fullText, notLast),
                  !.emitted  = a.emitted \o lines,
                  !.result   = AsmLines(a.result,
                                        FromStartIndex(lines, a.offset),
                                        a.driverId),
                  !.offset   = a.offset + a.CHUNK_SIZE]

\* tempMap.set(p.t, { timestamp: new Date(p.t).getTime() })
NewEntry(t) ==
    [ timestamp |-> DateGetTime(t), speed |-> Undefined, rpm |-> Undefined,
      gear |-> Undefined, throttle |-> Undefined, brake |-> Undefined,
      steering |-> Undefined ]

\* the assignments with the first value of a channel kept
SetChannel_KeepFirst(entry, p) ==
    IF p.n = N_speed /\ entry.speed = Undefined
        THEN [entry EXCEPT !.speed = p.v]
    ELSE IF p.n = N_nmot /\ entry.rpm = Undefined
        THEN [entry EXCEPT !.rpm = p.v]
    ELSE IF p.n = N_gear /\ entry.gear = Undefined
        THEN [entry EXCEPT !.gear = p.v]
    ELSE IF p.n = N_ath /\ entry.throttle = Undefined
        THEN [entry EXCEPT !.throttle = NumDiv100(p.v)]
    ELSE IF p.n = N_pbrake_f /\ entry.brake = Undefined
        THEN [entry EXCEPT !.brake = NumDiv100(p.v)]
    ELSE IF p.n = N_Steering_Angle /\ entry.steering = Undefined
        THEN [entry EXCEPT !.steering = p.v]
    ELSE entry

\* the chain of assignments entry.<field> = p.v by channel name
SetChannel(entry, p) ==
    IF p.n = N_speed THEN [entry EXCEPT !.speed = p.v]
    ELSE IF p.n = N_nmot THEN [entry EXCEPT !.rpm = p.v]
    ELSE IF p.n = N_gear THEN [entry EXCEPT !.gear = p.v]
    ELSE IF p.n = N_ath THEN [entry EXCEPT !.throttle = NumDiv100(p.v)]
    ELSE IF p.n = N_pbrake_f THEN [entry EXCEPT !.brake = NumDiv100(p.v)]
    ELSE IF p.n = N_Steering_Angle THEN [entry EXCEPT !.steering = p.v]
    ELSE entry

MapHas(map, key) == \E i \in 1..Len(map) : map[i].key = key

MapIndex(map, key) == CHOOSE i \in 1..Len(map) : map[i].key = key

\* the body of the aggregation loop for one raw sample; the Map is the
\* sequence of its [key, entry] pairs in insertion order
AggregateSample(tempMap, p) ==
    LET m == IF MapHas(tempMap, p.t) THEN tempMap
             ELSE Append(tempMap, [key |-> p.t, entry |-> NewEntry(p.t)])
        i == MapIndex(m, p.t)
    IN  [m EXCEPT ![i].entry = SetChannel(m[i].entry, p)]

RECURSIVE Aggregate(_, _)
Aggregate(tempMap, result) ==
    IF result = <<>> THEN tempMap
    ELSE Aggregate(AggregateSample(tempMap, Head(result)), Tail(result))

\* Array.from(tempMap.values()).sort((a, b) => a.timestamp - b.timestamp)
SortedDataOutcomes(tempMap) ==
    SortOutcomes([i \in 1..Len(tempMap) |->
                    [k |-> tempMap[i].entry.timestamp, v |-> tempMap[i].entry]])

Lead8 == <<COMMA, COMMA, COMMA, COMMA, COMMA, COMMA, COMMA, COMMA>>

\* a telemetry row: eight leading columns, then name, value, timestamp, one
\* more column and the vehicle number
AsmRow(name, value, ts, id) ==
    Lead8 \o name \o <<COMMA>> \o value \o <<COMMA>> \o ts
          \o <<COMMA, COMMA>> \o id

T_0 == <<"1", "9", "7", "0">>
T_0m == <<"1", "9", "7", "0", DASH, "0", "1">>
T_2 == <<"1", "9", "7", "0", DASH, "0", "1", DASH, "0", "3">>

\* the first line of a file: a header, or (a file without one) a row
AsmHeaders == { <<"h">>, AsmRow(N_speed, <<"1">>, T_2, <<"7">>) }

AsmRowSet ==
    { AsmRow(N_speed, <<"5">>, T_0, <<"7">>),
      AsmRow(N_ath, <<"5", "0">>, T_0, <<"7">>),
      AsmRow(N_speed, <<"9">>, T_0, <<"7">>),
      AsmRow(N_speed, <<"4">>, T_0, <<"8">>),
      AsmRow(N_gear, <<"x">>, <<"x">>, <<"7">>),
      AsmRow(<<"z", "z">>, <<"1">>, T_0m, <<"7">>),
      AsmRow(N_speed, <<"6">>, <<>>, <<"7">>) }

\* the lines of a file, each with its terminator: CR LF after the first,
\* third, ... line, LF after the others, none after the last
AsmParts(lines) ==
    [i \in 1..Len(lines) |->
        IF i = Len(lines) THEN lines[i]
        ELSE IF i % 2 = 1 THEN lines[i] \o <<CR, LF>>
        ELSE lines[i] \o <<LF>>]

AsmFileParts ==
    { AsmParts(<<h>> \o rows) :
        h \in AsmHeaders, rows \in SeqsUpTo(AsmRowSet, MaxAsmRows) }

\* chunk sizes below and above the length of a row
AsmChunkSizes == {AsmChunkStride, 3 * AsmChunkStride}

AsmInit ==
    /\ asm \in {AsmStart(parts, <<"7">>, c) :
                  parts \in AsmFileParts, c \in AsmChunkSizes}
    /\ scan = ScanIdle
    /\ lapq = LapIdle
    /\ ui = UiIdle
    /\ grip = GripIdle
    /\ dna = DnaIdle

\* while (offset < file.size) { ... }
AsmChunk ==
    /\ asm.pc = "loop"
    /\ asm.offset < Len(asm.file)
    /\ asm' = AsmIteration(asm)
    /\ UNCHANGED <<scan, lapq, ui, grip, dna>>

\* the loop has ended: aggregate by timestamp, sort and return
AsmReturn ==
    /\ asm.pc = "loop"
    /\ asm.offset >= Len(asm.file)
    /\ LET map == Aggregate(<<>>, asm.result)
       IN  \E sorted \in SortedDataOutcomes(map) :
              asm' = [asm EXCEPT !.pc = "done", !.tempMap = map,
                                 !.sortedData = sorted]
    /\ UNCHANGED <<scan, lapq, ui, grip, dna>>

AsmNext == AsmChunk \/ AsmReturn

SpecAsm == AsmInit /\ [][AsmNext]_vars

\* the pass run to the end of its loop
RECURSIVE AsmLoop(_)
AsmLoop(a) ==
    IF a.offset < Len(a.file) THEN AsmLoop(AsmIteration(a)) ELSE a

\* a line is a row of a vehicle other than id
IsOtherVehicleRow(line, id) ==
    lastIndexOf(trim(line), COMMA) # 0 /\ TrailingField(trim(line)) # id

\* the file without the rows of other vehicles (its first line is kept)
OwnParts(parts, id) ==
    <<Head(parts)>>
        \o SelectSeq(Tail(parts), LAMBDA p : ~IsOtherVehicleRow(p, id))

\* a line is a row of vehicle id that the assembler accepts: at least 11
\* columns and a timestamp
IsAcceptedRow(line, id) ==
    LET row  == trim(line)
        cols == split(row, COMMA)
    IN  /\ lastIndexOf(row, COMMA) # 0
        /\ TrailingField(row) = id
        /\ Len(cols) >= 11
        /\ cols[11] # <<>>

SampleOf(line) ==
    LET cols == split(trim(line), COMMA)
    IN  [t |-> cols[11], n |-> cols[9], v |-> parseFloat(cols[10])]

\* the samples of the accepted rows among lines, in the order of the lines
AcceptedSamples(lines, id) ==
    LET rows == SelectSeq(lines, LAMBDA l : IsAcceptedRow(l, id))
    IN  [i \in 1..Len(rows) |-> SampleOf(rows[i])]

Timestamps(samples) == {samples[i].t : i \in 1..Len(samples)}

\* the samples of the lines whose trailing field is id
TargetSamples(lines, id) ==
    { SampleOf(l) :
        l \in { r \in Range(lines) :
                  /\ lastIndexOf(trim(r), COMMA) # 0
                  /\ TrailingField(trim(r)) = id
                  /\ Len(split(trim(r), COMMA)) >= 11 } }

\* the pass over the same file without the rows of other vehicles
OwnRun(a) ==
    IF OwnParts(a.parts, a.driverId) = a.parts THEN a
    ELSE AsmLoop(AsmStart(OwnParts(a.parts, a.driverId), a.driverId,
                          a.CHUNK_SIZE))

(* C4: every retained sample is the sample of a line of the file whose     *)
(* trailing field is the target id, and the samples and the map of points  *)
(* are those of the same file without the rows of other vehicles           *)
C4_OnlyTargetRowsRetained ==
    asm.pc = "done" =>
        /\ Range(asm.result)
              \subseteq TargetSamples(SplitLines(asm.file), asm.driverId)
        /\ asm.result = OwnRun(asm).result
        /\ asm.tempMap = Aggregate(<<>>, OwnRun(asm).result)

\* a file with a row of another vehicle between rows of the target has been
\* assembled
C4_Witness ==
    /\ asm.pc = "done"
    /\ Len(asm.result) >= 2
    /\ \E i \in 2..Len(asm.parts) :
          IsOtherVehicleRow(asm.parts[i], asm.driverId)
    /\ OwnParts(asm.parts, asm.driverId) # asm.parts

Count(seq, x) == Cardinality({i \in 1..Len(seq) : seq[i] = x})

MaxOf(S) == CHOOSE x \in S : \A y \in S : y <= x

\* the value of the last sample of channel name at timestamp t
LastValue(samples, t, name) ==
    LET I == {i \in 1..Len(samples) :
                samples[i].t = t /\ samples[i].n = name}
    IN  IF I = {} THEN Undefined ELSE samples[MaxOf(I)].v

Percent(v) == IF v = Undefined THEN Undefined ELSE NumDiv100(v)

\* the point the claim describes for timestamp t
MergedPoint(samples, t) ==
    [ timestamp |-> DateGetTime(t),
      speed     |-> LastValue(samples, t, N_speed),
      rpm       |-> LastValue(samples, t, N_nmot),
      gear      |-> LastValue(samples, t, N_gear),
      throttle  |-> Percent(LastValue(samples, t, N_ath)),
      brake     |-> Percent(LastValue(samples, t, N_pbrake_f)),
      steering  |-> LastValue(samples, t, N_Steering_Angle) ]

(* C5: the retained samples are the accepted rows in file order, and the   *)
(* samples of one timestamp string make one point that holds, for every    *)
(* channel, the value of the last sample of that channel                   *)
C5_SamplesMergeLastWins ==
    asm.pc = "done" =>
        LET lines == SplitLines(asm.file)
            keys  == Timestamps(asm.result)
        IN  /\ \/ asm.result = AcceptedSamples(lines, asm.driverId)
                \/ asm.result = AcceptedSamples(Tail(lines), asm.driverId)
            /\ \A t \in keys :
                  Cardinality({j \in 1..Len(asm.tempMap) :
                                 asm.tempMap[j].key = t}) = 1
            /\ \A j \in 1..Len(asm.tempMap) :
                  /\ asm.tempMap[j].key \in keys
                  /\ asm.tempMap[j].entry
                        = MergedPoint(asm.result, asm.tempMap[j].key)
                  /\ Count(asm.sortedData, asm.tempMap[j].entry)
                        = Cardinality({k \in 1..Len(asm.tempMap) :
                             asm.tempMap[k].entry = asm.tempMap[j].entry})
            /\ Len(asm.sortedData) = Len(asm.tempMap)

\* two channels of one timestamp are merged and a repeated channel has
\* overwritten the earlier value
C5_Witness ==
    /\ asm.pc = "done"
    /\ \E i, j, k \in 1..Len(asm.result) :
          /\ i < j /\ j # k /\ i # k
          /\ asm.result[i].t = asm.result[j].t
          /\ asm.result[i].t = asm.result[k].t
          /\ asm.result[i].n = N_speed /\ asm.result[j].n = N_speed
          /\ asm.result[i].v # asm.result[j].v
          /\ asm.result[k].n = N_ath
    /\ \E p \in Range(asm.sortedData) :
          p.speed = Int2Num(9) /\ p.throttle = Norm(5, 1)

(* C6: the number of returned points is the number of distinct timestamp   *)
(* strings among the accepted rows of the target vehicle in the data lines *)
(* of the file, whatever the chunk size                                    *)
C6_OnePointPerTimestamp ==
    asm.pc = "done" =>
        Len(asm.sortedData)
          = Cardinality(Timestamps(
                AcceptedSamples(DataLines(asm.file), asm.driverId)))

(* C7: the returned array is ascending by timestamp and no two points have *)
(* the same timestamp value                                                *)
C7_SortedDistinctTimestamps ==
    asm.pc = "done" =>
        \A i, j \in 1..Len(asm.sortedData) :
            i < j => NumLt(asm.sortedData[i].timestamp,
                           asm.sortedData[j].timestamp)

(* ------------------------- getLapTelemetry ----------------------------- *)

\* Array.prototype.find: the first element of laps numbered n, or Undefined
RECURSIVE FindLap(_, _)
FindLap(laps, n) ==
    IF laps = <<>> THEN Undefined
    ELSE IF NumEq(Head(laps).lap, Int2Num(n)) THEN Head(laps)
    ELSE FindLap(Tail(laps), n)

\* getLapTelemetry with the window closed at its end
getLapTelemetry_InclusiveEnd(telemetry, laps, lapNumber) ==
    LET currentLap == FindLap(laps, lapNumber)
        nextLap    == FindLap(laps, lapNumber + 1)
        startTime  == currentLap.timestamp
        endTime    == IF nextLap # Undefined THEN nextLap.timestamp
                      ELSE NumAdd(startTime, NumTimes(currentLap.time, 1000))
    IN  IF currentLap = Undefined THEN <<>>
        ELSE SelectSeq(telemetry,
                       LAMBDA p : /\ NumLe(startTime, p.timestamp)
                                  /\ NumLe(p.timestamp, endTime))

getLapTelemetry(telemetry, laps, lapNumber) ==
    LET currentLap == FindLap(laps, lapNumber)
        nextLap    == FindLap(laps, lapNumber + 1)
        startTime  == currentLap.timestamp
        endTime    == IF nextLap # Undefined THEN nextLap.timestamp
                      ELSE NumAdd(startTime, NumTimes(currentLap.time, 1000))
    IN  IF currentLap = Undefined THEN <<>>
        ELSE SelectSeq(telemetry,
                       LAMBDA p : /\ NumLe(startTime, p.timestamp)
                                  /\ NumLt(p.timestamp, endTime))

\* timestamps of telemetry points, in ms
LapPointTimes == {0, 1000, 2000, 2500}

\* telemetry as the assembler returns it: ascending by timestamp; the speed
\* of a point is its position, which tells equal timestamps apart
LapTelemetries ==
    { [i \in 1..Len(ts) |->
          [timestamp |-> Int2Num(ts[i]), speed |-> Int2Num(i)]] :
        ts \in { q \in SeqsUpTo(LapPointTimes, MaxLapPoints) :
                   \A i, j \in 1..Len(q) : i < j => q[i] <= q[j] } }

\* lap records as the laps decoder emits them: a lap number, a duration in
\* seconds (1 or 1.5) and a start timestamp, NaN when the date did not parse
LapRecords ==
    { [lap |-> Int2Num(n), time |-> d, timestamp |-> t] :
        n \in {1, 2}, d \in {Int2Num(1), Norm(15, 1)},
        t \in {Int2Num(0), Int2Num(1000), NaN} }

LapInit ==
    /\ lapq \in { [telemetry |-> tel, laps |-> laps, lapNumber |-> n,
                   pc |-> "call", out |-> <<>>] :
                    tel \in LapTelemetries,
                    laps \in SeqsUpTo(LapRecords, MaxLaps),
                    n \in {1, 2} }
    /\ scan = ScanIdle
    /\ asm = AsmIdle
    /\ ui = UiIdle
    /\ grip = GripIdle
    /\ dna = DnaIdle

LapCall ==
    /\ lapq.pc = "call"
    /\ lapq' = [lapq EXCEPT
                  !.pc = "done",
                  !.out = getLapTelemetry(lapq.telemetry, lapq.laps,
                                          lapq.lapNumber)]
    /\ UNCHANGED <<scan, asm, ui, grip, dna>>

LapNext == LapCall

SpecLap == LapInit /\ [][LapNext]_vars

MinOf(S) == CHOOSE x \in S : \A y \in S : x <= y

LapIndexes(laps, n) ==
    {i \in 1..Len(laps) : NumEq(laps[i].lap, Int2Num(n))}

\* the end of lap cur's window: the start of the lap numbered n + 1 when
\* there is one, the lap's start plus its duration in ms otherwise
LapWindowEnd(laps, cur, n) ==
    IF LapIndexes(laps, n + 1) # {}
    THEN laps[MinOf(LapIndexes(laps, n + 1))].timestamp
    ELSE NumAdd(cur.timestamp, NumTimes(cur.time, 1000))

(* C10: getLapTelemetry returns, in their order, exactly the points with   *)
(* start <= timestamp < end of the (first) lap numbered n, and the empty   *)
(* array when no lap is numbered n                                         *)
C10_LapWindow ==
    lapq.pc = "done" =>
        IF LapIndexes(lapq.laps, lapq.lapNumber) = {} THEN lapq.out = <<>>
        ELSE LET cur == lapq.laps[MinOf(LapIndexes(lapq.laps, lapq.lapNumber))]
                 end == LapWindowEnd(lapq.laps, cur, lapq.lapNumber)
                 in  == {i \in 1..Len(lapq.telemetry) :
                           /\ NumLe(cur.timestamp, lapq.telemetry[i].timestamp)
                           /\ NumLt(lapq.telemetry[i].timestamp, end)}
             IN  /\ Len(lapq.out) = Cardinality(in)
                 /\ \A k \in 1..Len(lapq.out) :
                       \E i \in in :
                          /\ lapq.out[k] = lapq.telemetry[i]
                          /\ Cardinality({j \in in : j < i}) = k - 1

\* a lap followed by the next lap has been sliced: a point at the start of
\* the window is returned and the point at its end is not
C10_Witness ==
    /\ lapq.pc = "done"
    /\ LapIndexes(lapq.laps, lapq.lapNumber) # {}
    /\ LapIndexes(lapq.laps, lapq.lapNumber + 1) # {}
    /\ Len(lapq.out) = 1
    /\ Len(lapq.telemetry) = 2
    /\ lapq.telemetry[2].timestamp
          = lapq.laps[MinOf(LapIndexes(lapq.laps, lapq.lapNumber + 1))].timestamp

(* --------------------- DataUpload: the upload dialog -------------------- *)

\* a value that may be null: <<>> is null, <<v>> holds v
None == <<>>
Some(v) == <<v>>

\* Math.round(a / b) for a >= 0, b > 0
RoundDiv(a, b) == (2 * a + b) \div (2 * b)

\* the telemetry files the user can choose: an empty file, a header alone,
\* a file with rows of driver 7 only, a file with rows of drivers 7 and 8
UiTelemetryFiles ==
    { <<>>,
      <<<<"h", LF>>>>,
      <<<<"h", LF>>, AsmRow(N_speed, <<"5">>, T_0, <<"7">>) \o <<LF>>>>,
      <<<<"h", LF>>, AsmRow(N_speed, <<"5">>, T_0, <<"7">>) \o <<LF>>,
        AsmRow(N_speed, <<"4">>, T_0, <<"8">>) \o <<LF>>>> }

AuxTypes == <<"weather", "laps", "sections">>

\* what parseCSV resolves to for an auxiliary file (its records)
Decoded(type, file) == <<"records", type, file>>

UiInit ==
    /\ ui = [ telemetryFile  |-> None,
              weatherFile    |-> None,
              lapsFile       |-> None,
              sectionsFile   |-> None,
              loading        |-> FALSE,
              progress       |-> 0,
              error          |-> "",
              parsedDrivers  |-> None,
              selectedDriver |-> None,
              mounted        |-> TRUE,
              runs           |-> <<>>,
              delivered      |-> <<>> ]
    /\ scan = ScanIdle
    /\ asm = AsmIdle
    /\ lapq = LapIdle
    /\ grip = GripIdle
    /\ dna = DnaIdle

AuxFile(u, type) ==
    IF type = "weather" THEN u.weatherFile
    ELSE IF type = "laps" THEN u.lapsFile
    ELSE u.sectionsFile

\* the auxiliary files finishLoading will decode, in its order
AuxTodo(u) == SelectSeq(AuxTypes, LAMBDA t : AuxFile(u, t) # None)

\* handleFileChange: the file inputs are rendered while parsedDrivers is
\* null, whether or not a run is loading
HandleFileChange ==
    /\ ui.mounted
    /\ ui.parsedDrivers = None
    /\ \/ \E f \in UiTelemetryFiles :
             ui' = [ui EXCEPT !.telemetryFile = Some(f),
                              !.parsedDrivers = None,
                              !.selectedDriver = None,
                              !.error = ""]
       \/ ui' = [ui EXCEPT !.weatherFile = Some("weather.csv"), !.error = ""]
       \/ ui' = [ui EXCEPT !.lapsFile = Some("laps.csv"), !.error = ""]
       \/ ui' = [ui EXCEPT !.sectionsFile = Some("sections.csv"),
                           !.error = ""]
    /\ UNCHANGED <<scan, asm, lapq, grip, dna>>

\* a run of handleProcess or finishLoading: the values its closure holds
\* and the pass it is in
NewRun(u, pc, scanRec, asmRec) ==
    [ pc        |-> pc,
      file      |-> u.telemetryFile[1],
      aux       |-> [t \in Range(AuxTypes) |-> AuxFile(u, t)],
      todo      |-> AuxTodo(u),
      scan      |-> scanRec,
      asm       |-> asmRec,
      telemetry |-> <<>>,
      readError |-> FALSE,
      decoded   |-> [t \in Range(AuxTypes) |-> <<>>] ]

NoPass == [pc |-> "none"]

\* handleProcess up to its first await ("Load Session Data", disabled while
\* loading or without a telemetry file)
HandleProcess ==
    /\ ui.mounted
    /\ ui.parsedDrivers = None
    /\ ~ui.loading
    /\ ui.telemetryFile # None
    /\ Len(ui.runs) < MaxRuns
    /\ ui' = [ui EXCEPT
                !.loading = TRUE,
                !.progress = 0,
                !.runs = Append(@, NewRun(ui, "scan",
                            ScanStart(Concat(ui.telemetryFile[1]), UiChunkSize),
                            NoPass))]
    /\ UNCHANGED <<scan, asm, lapq, grip, dna>>

\* run r ends without delivering: its closure is released, the outcome of
\* its discovery pass is kept
Ended(u, r, pc) ==
    [u EXCEPT !.runs[r] =
        [ pc        |-> pc,
          file      |-> <<>>,
          aux       |-> [t \in Range(AuxTypes) |-> None],
          todo      |-> <<>>,
          scan      |-> IF u.runs[r].scan.pc = "done"
                        THEN [pc |-> "done",
                              driverList |-> u.runs[r].scan.driverList]
                        ELSE NoPass,
          asm       |-> NoPass,
          telemetry |-> <<>>,
          readError |-> u.runs[r].readError,
          decoded   |-> [t \in Range(AuxTypes) |-> <<>>] ]]

\* reads that ended in error so far
ReadErrors(u) == Cardinality({r \in 1..Len(u.runs) : u.runs[r].readError})

\* a read of run r ends in error
ReadFails(u, r) == [u EXCEPT !.runs[r].readError = TRUE]

\* the catch block of handleProcess
ProcessFailed(u, r) ==
    [Ended(u, r, "failed") EXCEPT
        !.error = "Failed to parse files. Please check the format.",
        !.loading = FALSE]

\* the catch block of finishLoading
FinishFailed(u, r) ==
    [Ended(u, r, "failed") EXCEPT
        !.error = "Failed to load driver data.",
        !.loading = FALSE]

\* one iteration of the scan loop of run r; the read of the chunk may fail
ScanStep(r) ==
    /\ ui.runs[r].pc = "scan"
    /\ ui.runs[r].scan.offset < Len(ui.runs[r].scan.file)
    /\ LET s == ui.runs[r].scan
           u == [ui EXCEPT !.progress =
                               RoundDiv(s.offset * 50, Len(s.file))]
       IN  \/ ui' = [u EXCEPT !.runs[r].scan = ScanIteration(s)]
           \/ /\ ReadErrors(ui) < MaxReadErrors
              /\ ui' = ProcessFailed(ReadFails(u, r), r)
    /\ UNCHANGED <<scan, asm, lapq, grip, dna>>

\* finishLoading(driverName) up to its first await, for run r
StartFinish(u, r, driverName) ==
    [u EXCEPT !.loading = TRUE,
              !.runs[r].pc = "assemble",
              !.runs[r].asm = AsmStart(u.runs[r].file, driverName, UiChunkSize)]

\* what handleProcess does with the list of drivers
ProcessOutcome_NoEmptyCheck(drivers) ==
    IF Len(drivers) > 1 THEN "select" ELSE "finish"

ProcessOutcome(drivers) ==
    IF Len(drivers) = 0 THEN "throw"
    ELSE IF Len(drivers) > 1 THEN "select"
    ELSE "finish"

\* drivers[0]
FirstDriver(drivers) ==
    IF Len(drivers) > 0 THEN drivers[1] ELSE <<"undefined">>

\* the scan of run r has ended: handleProcess goes on with the list
ScanDone(r) ==
    /\ ui.runs[r].pc = "scan"
    /\ ui.runs[r].scan.offset >= Len(ui.runs[r].scan.file)
    /\ \E list \in DriverListOutcomes(ui.runs[r].scan.drivers) :
          LET u == [ui EXCEPT !.runs[r].scan.pc = "done",
                              !.runs[r].scan.driverList = list]
          IN  \/ /\ ProcessOutcome(list) = "throw"
                 /\ ui' = ProcessFailed(u, r)
              \/ /\ ProcessOutcome(list) = "select"
                 /\ ui' = [Ended(u, r, "offered") EXCEPT
                               !.parsedDrivers = Some(list),
                               !.loading = FALSE]
              \/ /\ ProcessOutcome(list) = "finish"
                 /\ ui' = StartFinish(u, r, FirstDriver(list))
    /\ UNCHANGED <<scan, asm, lapq, grip, dna>>

\* a driver button of the selection list
SelectDriver ==
    /\ ui.mounted
    /\ ui.parsedDrivers # None
    /\ \E d \in Range(ui.parsedDrivers[1]) :
          ui' = [ui EXCEPT !.selectedDriver = Some(d)]
    /\ UNCHANGED <<scan, asm, lapq, grip, dna>>

\* handleDriverSelect ("Confirm Selection", disabled without a selection)
HandleDriverSelect ==
    /\ ui.mounted
    /\ ui.parsedDrivers # None
    /\ ui.selectedDriver # None
    /\ ui.telemetryFile # None
    /\ Len(ui.runs) < MaxRuns
    /\ LET r == Len(ui.runs) + 1
           u == [ui EXCEPT !.runs = Append(@, NewRun(ui, "new", NoPass, NoPass))]
       IN  ui' = StartFinish(u, r, ui.selectedDriver[1])
    /\ UNCHANGED <<scan, asm, lapq, grip, dna>>

\* one iteration of the assembly loop of run r; the read may fail
AsmStep(r) ==
    /\ ui.runs[r].pc = "assemble"
    /\ ui.runs[r].asm.offset < Len(ui.runs[r].asm.file)
    /\ LET a == ui.runs[r].asm
           u == [ui EXCEPT !.progress =
                               50 + RoundDiv(a.offset * 40, Len(a.file))]
       IN  \/ ui' = [u EXCEPT !.runs[r].asm = AsmIteration(a)]
           \/ /\ ReadErrors(ui) < MaxReadErrors
              /\ ui' = FinishFailed(ReadFails(u, r), r)
    /\ UNCHANGED <<scan, asm, lapq, grip, dna>>

\* setProgress(100); onDataLoaded({...}): App.handleDataLoaded takes the
\* data and unmounts the dialog
Deliver(u, r) ==
    [u EXCEPT !.progress = 100,
              !.mounted = FALSE,
              !.runs[r].pc = "delivered",
              !.delivered = Append(@,
                  [ telemetry  |-> u.runs[r].telemetry,
                    weather    |-> u.runs[r].decoded["weather"],
                    laps       |-> u.runs[r].decoded["laps"],
                    sections   |-> u.runs[r].decoded["sections"],
                    driverName |-> u.runs[r].asm.driverId,
                    run        |-> r ])]

\* finishLoading after a step: the next auxiliary file is awaited, or
\* nothing is left and the data is delivered
AwaitAuxOrDeliver(u, r) ==
    IF u.runs[r].todo = <<>> THEN Deliver(u, r)
    ELSE [u EXCEPT !.runs[r].pc = "auxiliary"]

\* the assembly of run r has ended: aggregate, sort, setProgress(95)
AsmDone(r) ==
    /\ ui.runs[r].pc = "assemble"
    /\ ui.runs[r].asm.offset >= Len(ui.runs[r].asm.file)
    /\ LET map == Aggregate(<<>>, ui.runs[r].asm.result)
       IN  \E sorted \in SortedDataOutcomes(map) :
              ui' = AwaitAuxOrDeliver(
                      [ui EXCEPT !.progress = 95,
                                 !.runs[r].telemetry = sorted,
                                 !.runs[r].asm.pc = "done",
                                 !.runs[r].asm.tempMap = map,
                                 !.runs[r].asm.sortedData = sorted], r)
    /\ UNCHANGED <<scan, asm, lapq, grip, dna>>

\* parseCSV of the next auxiliary file of run r: its FileReader loads the
\* file and the promise resolves, or the read fails; the reader has no
\* onerror handler, so the promise then never settles
AuxStep(r) ==
    /\ ui.runs[r].pc = "auxiliary"
    /\ LET t == Head(ui.runs[r].todo)
       IN  \/ ui' = AwaitAuxOrDeliver(
                      [ui EXCEPT !.runs[r].todo = Tail(@),
                                 !.runs[r].decoded[t] =
                                     Decoded(t, ui.runs[r].aux[t][1])], r)
           \/ /\ ReadErrors(ui) < MaxReadErrors
              /\ ui' = Ended(ReadFails(ui, r), r, "hung")
    /\ UNCHANGED <<scan, asm, lapq, grip, dna>>

RunStep ==
    \E r \in 1..Len(ui.runs) :
        \/ ScanStep(r)
        \/ ScanDone(r)
        \/ AsmStep(r)
        \/ AsmDone(r)
        \/ AuxStep(r)

UiNext ==
    \/ HandleFileChange
    \/ HandleProcess
    \/ SelectDriver
    \/ HandleDriverSelect
    \/ RunStep

SpecUi == UiInit /\ [][UiNext]_vars

(* ------------------------ claims on the upload dialog ------------------- *)

Runs == 1..Len(ui.runs)

\* the run that delivered entry i assembled its file in full and decoded
\* every auxiliary file its closure held
DeliveredComplete(i) ==
    LET d == ui.delivered[i]
        run == ui.runs[d.run]
    IN  /\ run.asm.pc = "done"
        /\ run.asm.offset >= Len(run.asm.file)
        /\ d.telemetry = run.asm.sortedData
        /\ \A t \in Range(AuxTypes) :
              run.aux[t] # None => run.decoded[t] = Decoded(t, run.aux[t][1])
        /\ d.weather = run.decoded["weather"]
        /\ d.laps = run.decoded["laps"]
        /\ d.sections = run.decoded["sections"]

\* a step of finishLoading in run r fails: a read of the assembly or of an
\* auxiliary file ends in error
FinishStepFails(r) ==
    /\ ui.runs[r].pc \in {"assemble", "auxiliary"}
    /\ ui'.runs[r].pc \in {"failed", "hung"}

\* C8: the data is delivered only after the whole telemetry assembly and the
\* decoding of every supplied auxiliary file; when a step of finishLoading
\* fails, nothing is delivered, the error message is set and loading is false
C8_NoPartialCommit ==
    /\ [](\A i \in 1..Len(ui.delivered) : DeliveredComplete(i))
    /\ [][\A r \in Runs :
             FinishStepFails(r) =>
                 /\ ui'.delivered = ui.delivered
                 /\ ui'.error # ""
                 /\ ~ui'.loading]_vars

\* the discovery pass of run r ends with an empty list of drivers
ScanEndsEmpty(r) ==
    /\ ui.runs[r].pc = "scan"
    /\ ui'.runs[r].scan.pc = "done"
    /\ ui'.runs[r].scan.driverList = <<>>

\* C9: when the discovery pass finds no valid vehicle id, the run ends with
\* the error message set, loading false and parsedDrivers null; finishLoading
\* is not started and nothing is delivered
C9_ZeroDriversIsAnError ==
    [][\A r \in Runs :
          ScanEndsEmpty(r) =>
              /\ ui'.error # ""
              /\ ~ui'.loading
              /\ ui'.parsedDrivers = None
              /\ ui'.runs[r].pc = "failed"
              /\ ui'.runs[r].asm = NoPass
              /\ ui'.delivered = ui.delivered]_vars

\* a discovery pass of an empty or header-only file ended without a driver
\* and its run failed
C9_Witness ==
    \E r \in Runs :
        /\ ui.runs[r].scan.pc = "done"
        /\ ui.runs[r].scan.driverList = <<>>
        /\ ui.runs[r].pc = "failed"
        /\ ui.error # ""
        /\ ~ui.loading
        /\ ui.parsedDrivers = None

(* --------------------------- findFastestLap ----------------------------- *)

MaxFastestLaps == 3

\* null
JsNull == [null |-> TRUE]

\* Array.prototype.filter(l => l.time > 20)
ValidLaps(laps) == SelectSeq(laps, LAMBDA l : NumLt(Int2Num(20), l.time))

\* findFastestLap with the threshold included (l.time >= 20)
findFastestLap_AtLeast20(laps) ==
    LET validLaps == SelectSeq(laps, LAMBDA l : NumLe(Int2Num(20), l.time))
    IN  IF laps = <<>> THEN {JsNull}
        ELSE IF validLaps = <<>> THEN {JsNull}
        ELSE { sorted[1].lap :
                 sorted \in SortOutcomes(
                     [i \in 1..Len(validLaps) |->
                         [k |-> validLaps[i].time, v |-> validLaps[i]]]) }

\* the values findFastestLap can return
findFastestLap(laps) ==
    LET validLaps == ValidLaps(laps)
    IN  IF laps = <<>> THEN {JsNull}
        ELSE IF validLaps = <<>> THEN {JsNull}
        ELSE { sorted[1].lap :
                 sorted \in SortOutcomes(
                     [i \in 1..Len(validLaps) |->
                         [k |-> validLaps[i].time, v |-> validLaps[i]]]) }

\* lap records as the laps decoder emits them: durations below, at and above
\* 20 s, a duration that did not parse, and a common start
FastestLapRecords ==
    { [lap |-> Int2Num(n), time |-> d, timestamp |-> Int2Num(0)] :
        n \in {1, 2, 3},
        d \in {Int2Num(18), Int2Num(20), Norm(205, 1), Int2Num(92),
               Int2Num(95), NaN} }

FastestInit ==
    /\ lapq \in { [fn |-> "findFastestLap", laps |-> laps,
                   pc |-> "call", out |-> JsNull] :
                    laps \in SeqsUpTo(FastestLapRecords, MaxFastestLaps) }
    /\ scan = ScanIdle
    /\ asm = AsmIdle
    /\ ui = UiIdle
    /\ grip = GripIdle
    /\ dna = DnaIdle

FastestCall ==
    /\ lapq.pc = "call"
    /\ \E r \in findFastestLap(lapq.laps) :
          lapq' = [lapq EXCEPT !.pc = "done", !.out = r]
    /\ UNCHANGED <<scan, asm, ui, grip, dna>>

FastestNext == FastestCall

SpecFastest == FastestInit /\ [][FastestNext]_vars

\* positions of the laps longer than 20 s
QualifyingLaps(laps) ==
    {i \in 1..Len(laps) : NumLt(Int2Num(20), laps[i].time)}

\* the earliest lap of minimal duration among the qualifying laps
EarliestFastest(laps) ==
    MinOf({i \in QualifyingLaps(laps) :
             \A j \in QualifyingLaps(laps) : NumLe(laps[i].time, laps[j].time)})

\* C11: findFastestLap returns the number of the earliest lap of minimal
\* duration among the laps longer than 20 s, and null when the list is empty
\* or no lap is longer than 20 s
C11_FastestLap ==
    lapq.pc = "done" =>
        IF QualifyingLaps(lapq.laps) = {} THEN lapq.out = JsNull
        ELSE lapq.out = lapq.laps[EarliestFastest(lapq.laps)].lap

\* two laps tie for the minimum behind a lap of 20 s or less, and the
\* earlier of the two is returned
C11_Witness ==
    /\ lapq.pc = "done"
    /\ Len(lapq.laps) = 3
    /\ ~NumLt(Int2Num(20), lapq.laps[1].time)
    /\ NumEq(lapq.laps[2].time, lapq.laps[3].time)
    /\ NumLt(Int2Num(20), lapq.laps[2].time)
    /\ lapq.laps[2].lap # lapq.laps[3].lap
    /\ lapq.laps[1].lap # lapq.laps[2].lap
    /\ lapq.out = lapq.laps[2].lap

(* ------------------- IEEE 754 doubles of interpolate -------------------- *)

\* bits of the significand of a double
MantissaBits == 53

\* a positive double is [cls |-> "num", e, bits]: bits is its significand,
\* leading 1 first, and its value is in [2^e, 2^(e+1))
DblZero == [cls |-> "zero", e |-> 0, bits |-> <<>>]
DblNaN == [cls |-> "nan", e |-> 0, bits |-> <<>>]

Pow2(k) == 2 ^ k

\* the largest k with b * 2^k <= a, for a >= b
RECURSIVE ShiftUp(_, _)
ShiftUp(a, b) == IF 2 * b <= a THEN 1 + ShiftUp(a, 2 * b) ELSE 0

\* the smallest k with a * 2^k >= b, for a < b
RECURSIVE ShiftDown(_, _)
ShiftDown(a, b) == IF a < b THEN 1 + ShiftDown(2 * a, b) ELSE 0

\* n more quotient bits of r / B (r < B) after acc, and the remainder
RECURSIVE DivBits(_, _, _, _)
DivBits(r, B, n, acc) ==
    IF n = 0 THEN [bits |-> acc, rem |-> r]
    ELSE IF 2 * r >= B THEN DivBits(2 * r - B, B, n - 1, Append(acc, 1))
    ELSE DivBits(2 * r, B, n - 1, Append(acc, 0))

\* bits + 1; a carry out of the top gives one more bit
RECURSIVE IncBits(_)
IncBits(bits) ==
    IF bits = <<>> THEN <<1>>
    ELSE IF bits[Len(bits)] = 0
         THEN SubSeq(bits, 1, Len(bits) - 1) \o <<1>>
    ELSE IncBits(SubSeq(bits, 1, Len(bits) - 1)) \o <<0>>

\* round to nearest, ties to even: up tells that the discarded part is
\* above one half, tie that it is exactly one half
RoundBits(e, bits, up, tie) ==
    IF up \/ (tie /\ bits[Len(bits)] = 1)
    THEN LET inc == IncBits(bits)
         IN  IF Len(inc) > Len(bits)
             THEN [cls |-> "num", e |-> e + 1,
                   bits |-> SubSeq(inc, 1, Len(bits))]
             ELSE [cls |-> "num", e |-> e, bits |-> inc]
    ELSE [cls |-> "num", e |-> e, bits |-> bits]

\* the double a / b for integers a >= 1, b >= 1
DblDiv(a, b) ==
    LET up   == IF a >= b THEN ShiftUp(a, b) ELSE 0
        down == IF a < b THEN ShiftDown(a, b) ELSE 0
        A    == a * Pow2(down)
        B    == b * Pow2(up)
        q    == DivBits(A - B, B, MantissaBits - 1, <<1>>)
    IN  RoundBits(up - down, q.bits, 2 * q.rem > B, 2 * q.rem = B)

\* the bits of the integer n, most significant first (none for 0)
RECURSIVE IntBits(_)
IntBits(n) == IF n = 0 THEN <<>> ELSE Append(IntBits(n \div 2), n % 2)

\* the integer whose bits are given
RECURSIVE BitsVal(_)
BitsVal(bits) ==
    IF bits = <<>> THEN 0
    ELSE 2 * BitsVal(SubSeq(bits, 1, Len(bits) - 1)) + bits[Len(bits)]

\* the w low bits of n, most significant first
FixBits(n, w) == [k \in 1..w |-> (n \div Pow2(w - k)) % 2]

\* the exact product bits * i of a 53-bit significand and an integer
\* i < 2^10, computed on limbs of 13, 20 and 20 bits
MulBits(bits, i) ==
    LET lo  == BitsVal(SubSeq(bits, 34, 53)) * i
        mid == BitsVal(SubSeq(bits, 14, 33)) * i + lo \div Pow2(20)
        hi  == BitsVal(SubSeq(bits, 1, 13)) * i + mid \div Pow2(20)
    IN  IntBits(hi) \o FixBits(mid % Pow2(20), 20) \o FixBits(lo % Pow2(20), 20)

\* the double i * x for an integer i >= 0
DblTimesInt(i, x) ==
    IF x.cls = "nan" THEN DblNaN
    ELSE IF i = 0 \/ x.cls = "zero" THEN DblZero
    ELSE LET p    == MulBits(x.bits, i)
             n    == Len(p)
             rest == SubSeq(p, MantissaBits + 1, n)
             more == \E k \in 2..Len(rest) : rest[k] = 1
         IN  RoundBits(x.e + (n - MantissaBits), SubSeq(p, 1, MantissaBits),
                       rest # <<>> /\ rest[1] = 1 /\ more,
                       rest # <<>> /\ rest[1] = 1 /\ ~more)

\* Math.floor(x) for a double 0 <= x < 2^30
DblFloor(x) ==
    IF x.cls = "zero" \/ x.e < 0 THEN 0
    ELSE BitsVal(SubSeq(x.bits, 1, x.e + 1))

\* the bits of x - Math.floor(x) after the binary point (the subtraction is
\* exact)
DblFracBits(x) ==
    IF x.cls = "zero" THEN <<>>
    ELSE IF x.e < 0 THEN [k \in 1..(-x.e - 1) |-> 0] \o x.bits
    ELSE SubSeq(x.bits, x.e + 2, MantissaBits)

IsZeroBits(bits) == \A k \in 1..Len(bits) : bits[k] = 0

\* Math.ceil(x)
DblCeil(x) ==
    IF IsZeroBits(DblFracBits(x)) THEN DblFloor(x) ELSE DblFloor(x) + 1

(* ------------------------------ interpolate ----------------------------- *)

MaxInterpLen == 16
MaxInterpTarget == 12

\* a non-negative double below 2^20 as a fixed-point number: five limbs of
\* 20 bits, the integer part first, then 80 bits after the binary point
FxLimb == Pow2(20)
FxWidth == 100

FxFromInt(n) == <<n, 0, 0, 0, 0>>

FxBits(x) ==
    FixBits(x[1], 20) \o FixBits(x[2], 20) \o FixBits(x[3], 20)
        \o FixBits(x[4], 20) \o FixBits(x[5], 20)

FxFromBits(bits) ==
    [k \in 1..5 |-> BitsVal(SubSeq(bits, 20 * k - 19, 20 * k))]

\* the exact sum x + y
FxAdd(x, y) ==
    LET s5 == x[5] + y[5]
        s4 == x[4] + y[4] + s5 \div FxLimb
        s3 == x[3] + y[3] + s4 \div FxLimb
        s2 == x[2] + y[2] + s3 \div FxLimb
        s1 == x[1] + y[1] + s2 \div FxLimb
    IN  <<s1, s2 % FxLimb, s3 % FxLimb, s4 % FxLimb, s5 % FxLimb>>

\* the exact difference x - y, for x >= y
FxSub(x, y) ==
    LET t5 == x[5] - y[5]
        b5 == IF t5 < 0 THEN 1 ELSE 0
        t4 == x[4] - y[4] - b5
        b4 == IF t4 < 0 THEN 1 ELSE 0
        t3 == x[3] - y[3] - b4
        b3 == IF t3 < 0 THEN 1 ELSE 0
        t2 == x[2] - y[2] - b3
        b2 == IF t2 < 0 THEN 1 ELSE 0
    IN  <<x[1] - y[1] - b2, t2 + b2 * FxLimb, t3 + b3 * FxLimb,
          t4 + b4 * FxLimb, t5 + b5 * FxLimb>>

\* the exact product x * n for an integer 0 <= n < 2^10
FxTimesInt(x, n) ==
    LET p5 == x[5] * n
        p4 == x[4] * n + p5 \div FxLimb
        p3 == x[3] * n + p4 \div FxLimb
        p2 == x[2] * n + p3 \div FxLimb
        p1 == x[1] * n + p2 \div FxLimb
    IN  <<p1, p2 % FxLimb, p3 % FxLimb, p4 % FxLimb, p5 % FxLimb>>

\* x rounded to a double: 53 significant bits, to nearest, ties to even
FxRound(x) ==
    LET bits == FxBits(x)
        p    == CHOOSE k \in 1..FxWidth :
                    bits[k] = 1 /\ \A j \in 1..(k - 1) : bits[j] = 0
        last == p + MantissaBits - 1
        kept == [k \in 1..FxWidth |-> IF k <= last THEN bits[k] ELSE 0]
        unit == [k \in 1..FxWidth |-> IF k = last THEN 1 ELSE 0]
        more == \E k \in (last + 2)..FxWidth : bits[k] = 1
    IN  IF IsZeroBits(bits) THEN x
        ELSE IF last >= FxWidth THEN x
        ELSE IF bits[last + 1] = 1 /\ (more \/ bits[last] = 1)
             THEN FxAdd(FxFromBits(kept), FxFromBits(unit))
        ELSE FxFromBits(kept)

\* an element of the result: NaN or a double
ExactValue(n) == [nan |-> FALSE, fx |-> FxFromInt(n)]
NaNValue == [nan |-> TRUE, fx |-> FxFromInt(0)]

\* weight = index - lower, from the bits of the index after the point
Weight(frac) ==
    FxFromBits([k \in 1..FxWidth |->
                   IF k > 20 /\ k - 20 <= Len(frac) THEN frac[k - 20] ELSE 0])

\* data[lower] * (1 - weight) + data[upper] * weight in double arithmetic,
\* for data of integers 0..1000
Blend(d1, d2, weight) ==
    LET rest == FxRound(FxSub(FxFromInt(1), weight))
    IN  [nan |-> FALSE,
         fx  |-> FxRound(FxAdd(FxRound(FxTimesInt(rest, d1)),
                               FxRound(FxTimesInt(weight, d2))))]

\* the body of the loop for one i
InterpolatePoint(data, i, step) ==
    LET index == DblTimesInt(i, step)
        lower == DblFloor(index)
        upper == DblCeil(index)
    IN  IF upper >= Len(data) THEN ExactValue(data[Len(data)])
        ELSE Blend(data[lower + 1], data[upper + 1],
                   Weight(DblFracBits(index)))

\* interpolate(data, targetLength) for data of integers, targetLength >= 0;
\* with targetLength 1 the step is Infinity and the index 0 * Infinity is
\* NaN, which gives NaN
interpolate(data, targetLength) ==
    IF Len(data) < 2 THEN [i \in 1..targetLength |-> ExactValue(0)]
    ELSE IF targetLength = 1 THEN <<NaNValue>>
    ELSE LET step == DblDiv(Len(data) - 1, targetLength - 1)
         IN  [i \in 1..targetLength |-> InterpolatePoint(data, i - 1, step)]

\* data of the given length rising or falling by a constant step
Ramp(len, first, by) == [k \in 1..len |-> first + (k - 1) * by]

InterpInit ==
    /\ lapq \in { [fn |-> "interpolate", data |-> Ramp(len, r[1], r[2]),
                   targetLength |-> t, pc |-> "call", out |-> <<>>] :
                    len \in 0..MaxInterpLen, t \in 0..MaxInterpTarget,
                    r \in {<<0, 10>>, <<40, -1>>} }
    /\ scan = ScanIdle
    /\ asm = AsmIdle
    /\ ui = UiIdle
    /\ grip = GripIdle
    /\ dna = DnaIdle

InterpCall ==
    /\ lapq.pc = "call"
    /\ lapq' = [lapq EXCEPT
                  !.pc = "done",
                  !.out = interpolate(lapq.data, lapq.targetLength)]
    /\ UNCHANGED <<scan, asm, ui, grip, dna>>

InterpNext == InterpCall

SpecInterp == InterpInit /\ [][InterpNext]_vars

\* element o is the linear interpolation of data at the index num / den, up
\* to rounding: they agree to 12 bits after the binary point
IsInterpolationAt(o, data, num, den) ==
    LET lo   == num \div den
        rest == num - lo * den
        d1   == data[lo + 1]
        d2   == IF rest = 0 THEN d1 ELSE data[lo + 2]
        want == ((d1 * (den - rest) + d2 * rest) * Pow2(12)) \div den
        got  == o.fx[1] * Pow2(12) + o.fx[2] \div Pow2(8)
    IN  ~o.nan /\ got - want \in {-1, 0, 1}

\* C14: interpolate returns targetLength values: zeros when data has fewer
\* than 2 elements; otherwise (targetLength >= 2) element i is the linear
\* interpolation of data at index i * (L - 1) / (T - 1), the first element
\* is data[0] and the last is data[L - 1]
C14_Interpolate ==
    lapq.pc = "done" =>
        LET data == lapq.data
            T    == lapq.targetLength
            L    == Len(data)
        IN  /\ Len(lapq.out) = T
            /\ L < 2 => \A i \in 1..T : lapq.out[i] = ExactValue(0)
            /\ (L >= 2 /\ T >= 2) =>
                  /\ \A i \in 1..T :
                        IsInterpolationAt(lapq.out[i], data,
                                          (i - 1) * (L - 1), T - 1)
                  /\ lapq.out[1] = ExactValue(data[1])
                  /\ lapq.out[T] = ExactValue(data[L])

(* ---------------- getSignificantBrakingSegment / Throttle --------------- *)

MaxBrakeRunLen == 7

\* p.brake || 0: undefined, NaN and 0 give 0
OrZero(x) ==
    IF x = Undefined THEN Int2Num(0)
    ELSE IF x.nan THEN Int2Num(0)
    ELSE x

\* the forEach of the segment scan: channel tells the value of a point,
\* threshold and minLength select the runs; seg is currentSegment
RECURSIVE ScanSegments(_, _, _, _, _)
ScanSegments(values, threshold, minLength, seg, segments) ==
    IF values = <<>>
    THEN IF Len(seg) > minLength THEN Append(segments, seg) ELSE segments
    ELSE IF NumLt(Int2Num(threshold), OrZero(Head(values)))
         THEN ScanSegments(Tail(values), threshold, minLength,
                           Append(seg, Head(values)), segments)
    ELSE ScanSegments(Tail(values), threshold, minLength, <<>>,
                      IF Len(seg) > minLength THEN Append(segments, seg)
                      ELSE segments)

\* Math.max(...segment.map(p => p.brake || 0)) of integer values
SegmentMax(seg) ==
    CHOOSE x \in {OrZero(seg[k]).m : k \in 1..Len(seg)} :
        \A k \in 1..Len(seg) : OrZero(seg[k]).m <= x

\* segments.reduce((prev, current) => currMax > prevMax ? current : prev)
RECURSIVE ReduceByPeak(_, _)
ReduceByPeak(prev, rest) ==
    IF rest = <<>> THEN prev
    ELSE ReduceByPeak(IF SegmentMax(Head(rest)) > SegmentMax(prev)
                      THEN Head(rest) ELSE prev, Tail(rest))

\* segment.map(p => p.brake || 0), as integers
SegmentValues(seg) == [k \in 1..Len(seg) |-> OrZero(seg[k]).m]

Brakes(lapData) == [k \in 1..Len(lapData) |-> lapData[k].brake]

\* the best segment with the last one taken on equal peaks
BestBrakingSegment_LastOnTie(lapData) ==
    LET segments == ScanSegments(Brakes(lapData), 10, 5, <<>>, <<>>)
        last == CHOOSE k \in 1..Len(segments) :
                   /\ \A j \in 1..Len(segments) :
                         SegmentMax(segments[j]) <= SegmentMax(segments[k])
                   /\ \A j \in (k + 1)..Len(segments) :
                         SegmentMax(segments[j]) < SegmentMax(segments[k])
    IN  IF segments = <<>> THEN <<>>
        ELSE SegmentValues(segments[last])

\* the values of bestSegment, <<>> when there is no segment
BestBrakingSegment(lapData) ==
    LET segments == ScanSegments(Brakes(lapData), 10, 5, <<>>, <<>>)
    IN  IF segments = <<>> THEN <<>>
        ELSE SegmentValues(ReduceByPeak(Head(segments), Tail(segments)))

getSignificantBrakingSegment(lapData) ==
    LET values == BestBrakingSegment(lapData)
    IN  IF values = <<>> THEN <<>> ELSE interpolate(values, 100)

\* a point of a lap with the given brake and throttle
LapPoint(brake, throttle) ==
    [timestamp |-> Int2Num(0), brake |-> brake, throttle |-> throttle]

\* a run of len brake values above the threshold: 20, with the peak second
BrakeRun(len, peak) ==
    [k \in 1..len |-> LapPoint(Int2Num(IF k = 2 THEN peak ELSE 20),
                               Undefined)]

BrakeRuns ==
    {BrakeRun(len, peak) : len \in 5..MaxBrakeRunLen, peak \in {50, 80}}

\* laps of up to two runs; the points after a run or between two runs are
\* at or below the threshold: brake 0, 10, NaN or not set
BrakeLaps ==
    LET gap(g) == <<LapPoint(g, Undefined)>>
    IN  {<<>>}
        \cup {r \o t : r \in BrakeRuns,
                      t \in {<<>>, gap(Int2Num(0)), gap(Int2Num(10)),
                             gap(NaN), gap(Undefined)}}
        \cup {r1 \o g \o r2 :
                r1 \in BrakeRuns, r2 \in BrakeRuns,
                g \in {gap(Int2Num(10)), gap(Undefined)}}
        \cup {r1 \o r2 : r1 \in BrakeRuns, r2 \in BrakeRuns}

\* values is what the call handed to interpolate
BrakeInit ==
    /\ lapq \in { [fn |-> "getSignificantBrakingSegment", lapData |-> d,
                   pc |-> "call", values |-> <<>>, out |-> <<>>] :
                    d \in BrakeLaps }
    /\ scan = ScanIdle
    /\ asm = AsmIdle
    /\ ui = UiIdle
    /\ grip = GripIdle
    /\ dna = DnaIdle

BrakeCall ==
    /\ lapq.pc = "call"
    /\ lapq' = [lapq EXCEPT
                  !.pc = "done",
                  !.values = BestBrakingSegment(lapq.lapData),
                  !.out = getSignificantBrakingSegment(lapq.lapData)]
    /\ UNCHANGED <<scan, asm, ui, grip, dna>>

BrakeNext == BrakeCall

SpecBrake == BrakeInit /\ [][BrakeNext]_vars

\* a value above the threshold; NaN and a value not set are not
IsAbove(x, threshold) == x # Undefined /\ NumLt(Int2Num(threshold), x)

\* the maximal runs <<first, last>> of positions with values above the
\* threshold
MaximalRuns(values, threshold) ==
    LET n == Len(values)
    IN  {r \in (1..n) \X (1..n) :
           /\ r[1] <= r[2]
           /\ \A k \in r[1]..r[2] : IsAbove(values[k], threshold)
           /\ r[1] = 1 \/ ~IsAbove(values[r[1] - 1], threshold)
           /\ r[2] = n \/ ~IsAbove(values[r[2] + 1], threshold)}

RunLength(r) == r[2] - r[1] + 1

RunPeak(values, r) ==
    CHOOSE x \in {values[k].m : k \in r[1]..r[2]} :
        \A k \in r[1]..r[2] : values[k].m <= x

RunValues(values, r) == [k \in 1..RunLength(r) |-> values[r[1] + k - 1].m]

\* C12: getSignificantBrakingSegment resamples to 100 points the brake
\* values of the first run of highest peak among the maximal runs of at
\* least 6 points with brake > 10, and returns the empty array when there is
\* no such run
C12_BrakingSegment ==
    lapq.pc = "done" =>
        LET values == Brakes(lapq.lapData)
            runs   == {r \in MaximalRuns(values, 10) : RunLength(r) >= 6}
            best   == CHOOSE r \in runs :
                         \A q \in runs :
                            /\ RunPeak(values, q) <= RunPeak(values, r)
                            /\ RunPeak(values, q) = RunPeak(values, r)
                                  => r[1] <= q[1]
        IN  IF runs = {} THEN lapq.out = <<>>
            ELSE /\ lapq.values = RunValues(values, best)
                 /\ Len(lapq.out) = 100

\* two runs of 6 points or more have the same peak, the second reaches the
\* end of the lap, and the first is the one resampled
C12_Witness ==
    /\ lapq.pc = "done"
    /\ Len(lapq.out) = 100
    /\ LET values == Brakes(lapq.lapData)
           runs   == {r \in MaximalRuns(values, 10) : RunLength(r) >= 6}
       IN  \E r, q \in runs :
              /\ r[1] < q[1]
              /\ q[2] = Len(values)
              /\ RunPeak(values, r) = RunPeak(values, q)
              /\ RunLength(r) # RunLength(q)
              /\ lapq.values = RunValues(values, r)

(* ---------------------- getSignificantThrottleSegment ------------------- *)

MaxThrottleRunLen == 12

Throttles(lapData) == [k \in 1..Len(lapData) |-> lapData[k].throttle]

\* segments.reduce((prev, current) =>
\*     current.length > prev.length ? current : prev)
RECURSIVE ReduceByLength(_, _)
ReduceByLength(prev, rest) ==
    IF rest = <<>> THEN prev
    ELSE ReduceByLength(IF Len(Head(rest)) > Len(prev)
                        THEN Head(rest) ELSE prev, Tail(rest))

\* the best segment chosen by peak value as for braking
BestThrottleSegment_ByPeak(lapData) ==
    LET segments == ScanSegments(Throttles(lapData), 5, 10, <<>>, <<>>)
    IN  IF segments = <<>> THEN <<>>
        ELSE SegmentValues(ReduceByPeak(Head(segments), Tail(segments)))

\* the values of bestSegment, <<>> when there is no segment
BestThrottleSegment(lapData) ==
    LET segments == ScanSegments(Throttles(lapData), 5, 10, <<>>, <<>>)
    IN  IF segments = <<>> THEN <<>>
        ELSE SegmentValues(ReduceByLength(Head(segments), Tail(segments)))

getSignificantThrottleSegment(lapData) ==
    LET values == BestThrottleSegment(lapData)
    IN  IF values = <<>> THEN <<>> ELSE interpolate(values, 100)

\* a run of len throttle values above the threshold: 30, with the peak
\* second
ThrottleRun(len, peak) ==
    [k \in 1..len |-> LapPoint(Undefined,
                               Int2Num(IF k = 2 THEN peak ELSE 30))]

ThrottleRuns ==
    {ThrottleRun(len, peak) :
        len \in 10..MaxThrottleRunLen, peak \in {60, 100}}

\* laps of up to two runs; the points after a run or between two runs are
\* at or below the threshold: throttle 0, 5, NaN or not set
ThrottleLaps ==
    LET gap(g) == <<LapPoint(Undefined, g)>>
    IN  {<<>>}
        \cup {r \o t : r \in ThrottleRuns,
                      t \in {<<>>, gap(Int2Num(0)), gap(Int2Num(5)),
                             gap(NaN), gap(Undefined)}}
        \cup {r1 \o g \o r2 :
                r1 \in ThrottleRuns, r2 \in ThrottleRuns,
                g \in {gap(Int2Num(5)), gap(Undefined)}}

ThrottleInit ==
    /\ lapq \in { [fn |-> "getSignificantThrottleSegment", lapData |-> d,
                   pc |-> "call", values |-> <<>>, out |-> <<>>] :
                    d \in ThrottleLaps }
    /\ scan = ScanIdle
    /\ asm = AsmIdle
    /\ ui = UiIdle
    /\ grip = GripIdle
    /\ dna = DnaIdle

ThrottleCall ==
    /\ lapq.pc = "call"
    /\ lapq' = [lapq EXCEPT
                  !.pc = "done",
                  !.values = BestThrottleSegment(lapq.lapData),
                  !.out = getSignificantThrottleSegment(lapq.lapData)]
    /\ UNCHANGED <<scan, asm, ui, grip, dna>>

ThrottleNext == ThrottleCall

SpecThrottle == ThrottleInit /\ [][ThrottleNext]_vars

\* C13: getSignificantThrottleSegment resamples to 100 points the throttle
\* values of the first of the longest runs among the maximal runs of at
\* least 11 points with throttle > 5, whatever their peaks, and returns the
\* empty array when there is no such run
C13_ThrottleSegment ==
    lapq.pc = "done" =>
        LET values == Throttles(lapq.lapData)
            runs   == {r \in MaximalRuns(values, 5) : RunLength(r) >= 11}
            best   == CHOOSE r \in runs :
                         \A q \in runs :
                            /\ RunLength(q) <= RunLength(r)
                            /\ RunLength(q) = RunLength(r) => r[1] <= q[1]
        IN  IF runs = {} THEN lapq.out = <<>>
            ELSE /\ lapq.values = RunValues(values, best)
                 /\ Len(lapq.out) = 100

\* two runs of 11 points or more have the same length, the second has the
\* higher peak, and the first is the one resampled
C13_Witness ==
    /\ lapq.pc = "done"
    /\ Len(lapq.out) = 100
    /\ LET values == Throttles(lapq.lapData)
           runs   == {r \in MaximalRuns(values, 5) : RunLength(r) >= 11}
       IN  \E r, q \in runs :
              /\ r[1] < q[1]
              /\ RunLength(r) = RunLength(q)
              /\ RunPeak(values, r) < RunPeak(values, q)
              /\ lapq.values = RunValues(values, r)

(* ------------------------ TrackGrip: getOptimalGear --------------------- *)

\* speeds are multiples of 0.05 km/h up to MaxSpeedSteps of them
MaxSpeedSteps == 3800

\* optimalGearMap, in table order
optimalGearMap ==
    << [gear |-> 1, minSpeed |-> Norm(690, 1), maxSpeed |-> Norm(1031, 1)],
       [gear |-> 2, minSpeed |-> Norm(873, 1), maxSpeed |-> Norm(1238, 1)],
       [gear |-> 3, minSpeed |-> Norm(1239, 1), maxSpeed |-> Norm(1520, 1)],
       [gear |-> 4, minSpeed |-> Norm(1521, 1), maxSpeed |-> Norm(1837, 1)] >>

\* speed >= entry.minSpeed && speed <= entry.maxSpeed
InGearRange(speed, entry) ==
    NumLe(entry.minSpeed, speed) /\ NumLe(speed, entry.maxSpeed)

\* the loop stopping at the first entry that contains the speed
RECURSIVE ChooseGear_FirstMatch(_, _, _)
ChooseGear_FirstMatch(speed, k, chosen) ==
    IF k > Len(optimalGearMap) THEN chosen
    ELSE IF InGearRange(speed, optimalGearMap[k]) THEN optimalGearMap[k].gear
    ELSE ChooseGear_FirstMatch(speed, k + 1, chosen)

\* the for loop over the table: chosen after the entries from index k on
RECURSIVE ChooseGear(_, _, _)
ChooseGear(speed, k, chosen) ==
    IF k > Len(optimalGearMap) THEN chosen
    ELSE ChooseGear(speed, k + 1,
                    IF InGearRange(speed, optimalGearMap[k])
                    THEN optimalGearMap[k].gear ELSE chosen)

Max(a, b) == IF a > b THEN a ELSE b

\* getOptimalGear with the loop left at the first matching entry
getOptimalGear_FirstMatch(speed) ==
    IF NumLt(speed, optimalGearMap[1].minSpeed) THEN 1
    ELSE Min(4, Max(1, ChooseGear_FirstMatch(speed, 1, 1)))

getOptimalGear(speed) ==
    IF NumLt(speed, optimalGearMap[1].minSpeed) THEN 1
    ELSE Min(4, Max(1, ChooseGear(speed, 1, 1)))

GearInit ==
    /\ grip \in { [fn |-> "getOptimalGear", speed |-> s, pc |-> "call",
                   out |-> 0] :
                    s \in {Norm(5 * k, 2) : k \in 0..MaxSpeedSteps}
                            \cup {NaN} }
    /\ scan = ScanIdle
    /\ asm = AsmIdle
    /\ lapq = LapIdle
    /\ ui = UiIdle
    /\ dna = DnaIdle

GearCall ==
    /\ grip.pc = "call"
    /\ grip' = [grip EXCEPT !.pc = "done", !.out = getOptimalGear(grip.speed)]
    /\ UNCHANGED <<scan, asm, lapq, ui, dna>>

GearNext == GearCall

SpecGear == GearInit /\ [][GearNext]_vars

\* positions of the table entries whose range contains the speed
GearMatches(speed) ==
    {k \in 1..Len(optimalGearMap) : InGearRange(speed, optimalGearMap[k])}

\* C15: getOptimalGear returns 1 below 69.0, otherwise the gear of the last
\* table entry whose range contains the speed (2 at 90, 1 at 50), and always
\* a gear in 1..4
C15_OptimalGear ==
    grip.pc = "done" =>
        /\ NumLt(grip.speed, Norm(690, 1)) => grip.out = 1
        /\ (~NumLt(grip.speed, Norm(690, 1)) /\ GearMatches(grip.speed) # {})
              => grip.out = optimalGearMap[MaxOf(GearMatches(grip.speed))].gear
        /\ grip.speed = Int2Num(90) => grip.out = 2
        /\ grip.speed = Int2Num(50) => grip.out = 1
        /\ grip.out \in 1..4

\* the speed 90, inside the ranges of gears 1 and 2, gave gear 2
C15_Witness ==
    /\ grip.pc = "done"
    /\ grip.speed = Int2Num(90)
    /\ GearMatches(grip.speed) = {1, 2}
    /\ grip.out = 2

(* ------------ TrackGrip: generateMechanicalSympathyReport --------------- *)

SHIFT_TOLERANCE_RPM == 500
DOWN_SHIFT_EARLY_MAX == 3500
DOWN_SHIFT_LATE_MIN == 8000

\* the longest run of shifts in the histories of the score family
MaxShifts == 20

\* the keys '1->2', '2->3' and '3->4' of optimalShiftRPM
ShiftKeys == {<<1, 2>>, <<2, 3>>, <<3, 4>>}

\* optimalShiftRPM[`${prevGear}->${gear}`] for one of its keys
optimalShiftRPM(prevGear, gear) ==
    IF <<prevGear, gear>> = <<1, 2>> THEN 6930
    ELSE IF <<prevGear, gear>> = <<2, 3>> THEN 7147
    ELSE 7171

Abs(n) == IF n < 0 THEN -n ELSE n

\* the counters a report starts from
NoShifts == [total |-> 0, optimal |-> 0, early |-> 0, late |-> 0]

\* the body of the loop for one pair of consecutive samples: the counters
\* after it
CountShift_StrictTolerance(c, prev, curr) ==
    IF curr.gear > prev.gear /\ prev.gear > 0 /\ curr.gear - prev.gear = 1
    THEN LET optimalRpm == optimalShiftRPM(prev.gear, curr.gear)
             diff       == prev.rpm - optimalRpm
             counted    == [c EXCEPT !.total = @ + 1]
         IN  IF <<prev.gear, curr.gear>> \notin ShiftKeys THEN counted
             ELSE IF Abs(diff) < SHIFT_TOLERANCE_RPM
                  THEN [counted EXCEPT !.optimal = @ + 1]
             ELSE IF diff < -SHIFT_TOLERANCE_RPM
                  THEN [counted EXCEPT !.early = @ + 1]
             ELSE IF diff > SHIFT_TOLERANCE_RPM
                  THEN [counted EXCEPT !.late = @ + 1]
             ELSE counted
    ELSE IF curr.gear < prev.gear /\ prev.gear - curr.gear = 1
    THEN LET counted == [c EXCEPT !.total = @ + 1]
         IN  IF prev.rpm < DOWN_SHIFT_EARLY_MAX
             THEN [counted EXCEPT !.early = @ + 1]
             ELSE IF prev.rpm > DOWN_SHIFT_LATE_MIN
                  THEN [counted EXCEPT !.late = @ + 1]
             ELSE [counted EXCEPT !.optimal = @ + 1]
    ELSE c

CountShift(c, prev, curr) ==
    IF curr.gear > prev.gear /\ prev.gear > 0 /\ curr.gear - prev.gear = 1
    THEN LET optimalRpm == optimalShiftRPM(prev.gear, curr.gear)
             diff       == prev.rpm - optimalRpm
             counted    == [c EXCEPT !.total = @ + 1]
         IN  IF <<prev.gear, curr.gear>> \notin ShiftKeys THEN counted
             ELSE IF Abs(diff) <= SHIFT_TOLERANCE_RPM
                  THEN [counted EXCEPT !.optimal = @ + 1]
             ELSE IF diff < -SHIFT_TOLERANCE_RPM
                  THEN [counted EXCEPT !.early = @ + 1]
             ELSE IF diff > SHIFT_TOLERANCE_RPM
                  THEN [counted EXCEPT !.late = @ + 1]
             ELSE counted
    ELSE IF curr.gear < prev.gear /\ prev.gear - curr.gear = 1
    THEN LET counted == [c EXCEPT !.total = @ + 1]
         IN  IF prev.rpm < DOWN_SHIFT_EARLY_MAX
             THEN [counted EXCEPT !.early = @ + 1]
             ELSE IF prev.rpm > DOWN_SHIFT_LATE_MIN
                  THEN [counted EXCEPT !.late = @ + 1]
             ELSE [counted EXCEPT !.optimal = @ + 1]
    ELSE c

\* for (let i = 1; i < data.length; i++), i counted from 0 as in the code
RECURSIVE CountShifts(_, _, _)
CountShifts(data, i, c) ==
    IF i >= Len(data) THEN c
    ELSE CountShifts(data, i + 1, CountShift(c, data[i], data[i + 1]))

\* x > n for a double x and an integer n
DblGtInt(x, n) == x.cls # "nan" /\ DblCeil(x) > n

\* (optimalShifts / totalShifts) * 100 in doubles, for totalShifts > 0
OptimalPct(optimalShifts, totalShifts) ==
    IF optimalShifts = 0 THEN DblZero
    ELSE DblTimesInt(100, DblDiv(optimalShifts, totalShifts))

\* x >= n for a double x and an integer n
DblGeInt(x, n) == x.cls # "nan" /\ DblFloor(x) >= n

\* the score with every threshold included in the better letter
ScoreOf_Inclusive(c) ==
    IF c.total > 0
    THEN LET optimalPct == OptimalPct(c.optimal, c.total)
         IN  IF DblGeInt(optimalPct, 95) THEN "A+"
             ELSE IF DblGeInt(optimalPct, 90) THEN "A"
             ELSE IF DblGeInt(optimalPct, 85) THEN "B+"
             ELSE IF DblGeInt(optimalPct, 80) THEN "B"
             ELSE IF DblGeInt(optimalPct, 70) THEN "C"
             ELSE IF DblGeInt(optimalPct, 60) THEN "D"
             ELSE "F"
    ELSE "N/A"

\* let score = 'N/A'; if (totalShifts > 0) { ... }
ScoreOf(c) ==
    IF c.total > 0
    THEN LET optimalPct == OptimalPct(c.optimal, c.total)
         IN  IF DblGtInt(optimalPct, 95) THEN "A+"
             ELSE IF DblGtInt(optimalPct, 90) THEN "A"
             ELSE IF DblGtInt(optimalPct, 85) THEN "B+"
             ELSE IF DblGtInt(optimalPct, 80) THEN "B"
             ELSE IF DblGtInt(optimalPct, 70) THEN "C"
             ELSE IF DblGtInt(optimalPct, 60) THEN "D"
             ELSE "F"
    ELSE "N/A"

\* the report handed to setSympathyReport for the history data
generateMechanicalSympathyReport(data) ==
    LET c == CountShifts(data, 1, NoShifts)
    IN  [total |-> c.total, optimal |-> c.optimal, early |-> c.early,
         late |-> c.late, score |-> ScoreOf(c)]

\* useState({ total: 0, optimal: 0, early: 0, late: 0, score: 'N/A' })
InitialReport ==
    [total |-> 0, optimal |-> 0, early |-> 0, late |-> 0, score |-> "N/A"]

Sample(speed, gear, rpm) == [speed |-> speed, gear |-> gear, rpm |-> rpm]

\* rpm values on both sides of every threshold of the classification
ShiftRpms ==
    {3000, 3499, 3500, 3501, 6000, 6429, 6430, 6431, 6646, 6647, 6648,
     6670, 6671, 6672, 7147, 7429, 7430, 7431, 7646, 7647, 7648, 7670,
     7671, 7672, 7800, 7999, 8000, 8001, 8500}

\* histories of two samples
PairHistories ==
    { <<Sample(145, g1, r), Sample(145, g2, 7200)>> :
        g1 \in 1..4, g2 \in 1..4, r \in ShiftRpms }

\* a history of t shifts between gears 2 and 3, the first o of them at the
\* rpm 7147 and the others at the rpm other
RECURSIVE ShiftRun(_, _, _, _)
ShiftRun(t, o, other, k) ==
    IF k > t THEN << Sample(145, IF k % 2 = 1 THEN 2 ELSE 3, 7200) >>
    ELSE << Sample(145, IF k % 2 = 1 THEN 2 ELSE 3,
                   IF k <= o THEN 7147 ELSE other) >>
         \o ShiftRun(t, o, other, k + 1)

RunHistories ==
    { ShiftRun(t, o, other, 1) :
        t \in 0..MaxShifts, o \in 0..MaxShifts, other \in {3400, 8200} }

ReportInit ==
    /\ grip \in { [fn |-> "report", data |-> d, pc |-> "call",
                   sympathyReport |-> InitialReport] :
                    d \in PairHistories \cup RunHistories }
    /\ scan = ScanIdle
    /\ asm = AsmIdle
    /\ lapq = LapIdle
    /\ ui = UiIdle
    /\ dna = DnaIdle

ReportCall ==
    /\ grip.pc = "call"
    /\ grip' = [grip EXCEPT !.pc = "done",
                  !.sympathyReport = generateMechanicalSympathyReport(grip.data)]
    /\ UNCHANGED <<scan, asm, lapq, ui, dna>>

ReportNext == ReportCall

SpecReport == ReportInit /\ [][ReportNext]_vars

\* the class of the pair (prev, curr) in the words of the description
ShiftClass(prev, curr) ==
    IF curr.gear - prev.gear = 1
    THEN LET target == optimalShiftRPM(prev.gear, curr.gear)
         IN  IF Abs(prev.rpm - target) <= 500 THEN "optimal"
             ELSE IF prev.rpm < target - 500 THEN "early"
             ELSE "late"
    ELSE IF prev.gear - curr.gear = 1
    THEN IF prev.rpm < 3500 THEN "early"
         ELSE IF prev.rpm > 8000 THEN "late"
         ELSE "optimal"
    ELSE "none"

\* the number of consecutive pairs of data with the class cls
ShiftsOfClass(data, cls) ==
    Cardinality({i \in 2..Len(data) : ShiftClass(data[i - 1], data[i]) = cls})

\* C16: the report counts each upshift by one gear as optimal within 500 rpm
\* of the table value, early below and late above (2->3: 7147 optimal, 6000
\* early, 7800 late), each downshift by one gear as early below 3500, late
\* above 8000 and optimal otherwise, and nothing else
C16_ShiftClassification ==
    grip.pc = "done" /\ grip.fn = "report" =>
        LET r == grip.sympathyReport
            d == grip.data
        IN  /\ r.optimal = ShiftsOfClass(d, "optimal")
            /\ r.early = ShiftsOfClass(d, "early")
            /\ r.late = ShiftsOfClass(d, "late")
            /\ r.total = r.optimal + r.early + r.late
            /\ (Len(d) = 2 /\ d[1].gear = 2 /\ d[2].gear = 3) =>
                  /\ d[1].rpm = 7147 => r.optimal = 1
                  /\ d[1].rpm = 6000 => r.early = 1
                  /\ d[1].rpm = 7800 => r.late = 1
            /\ (Len(d) = 2 /\ Abs(d[1].gear - d[2].gear) # 1) => r.total = 0

\* an upshift 2->3 at exactly 500 rpm above the table value was counted as
\* optimal
C16_Witness ==
    /\ grip.pc = "done"
    /\ grip.fn = "report"
    /\ Len(grip.data) = 2
    /\ grip.data[1].gear = 2
    /\ grip.data[2].gear = 3
    /\ grip.data[1].rpm = 7647
    /\ grip.sympathyReport.optimal = 1
    /\ grip.sympathyReport.total = 1

\* the letter for the counters in exact arithmetic
LetterOf(optimal, total) ==
    IF total = 0 THEN "N/A"
    ELSE IF 100 * optimal > 95 * total THEN "A+"
    ELSE IF 100 * optimal > 90 * total THEN "A"
    ELSE IF 100 * optimal > 85 * total THEN "B+"
    ELSE IF 100 * optimal > 80 * total THEN "B"
    ELSE IF 100 * optimal > 70 * total THEN "C"
    ELSE IF 100 * optimal > 60 * total THEN "D"
    ELSE "F"

\* C18: the score is N/A without shifts and otherwise the letter of
\* p = 100 * optimal / total: A+ above 95, A above 90, B+ above 85, B above
\* 80, C above 70, D above 60, F at 60 and below
C18_ScoreOfCounters ==
    grip.pc = "done" /\ grip.fn = "report" =>
        grip.sympathyReport.score =
            LetterOf(grip.sympathyReport.optimal, grip.sympathyReport.total)

\* 19 optimal shifts of 20 are exactly 95 percent and scored A
C18_Witness ==
    /\ grip.pc = "done"
    /\ grip.fn = "report"
    /\ grip.sympathyReport.total = 20
    /\ grip.sympathyReport.optimal = 19
    /\ grip.sympathyReport.score = "A"

(* ------------------ TrackGrip: the telemetry history -------------------- *)

\* the history keeps the last MaxHistory samples (5000 in the component,
\* scaled down), and a run makes at most MaxUpdates telemetry updates
MaxHistory == 3
MaxUpdates == 6

\* values the simulated rpm and speed take; one tick moves the rpm by at
\* most 400 and the speed by at most 15
LiveRpms == {6400, 6800, 7200}
LiveSpeeds == {145, 150}

\* the effect on [currentSpeed, currentGear, currentRPM]: push the sample,
\* drop the oldest one beyond the cap, recompute the report
RecordTelemetry(g, speed, gear, rpm) ==
    LET pushed == Append(g.history, Sample(speed, gear, rpm))
        kept   == IF Len(pushed) > MaxHistory THEN Tail(pushed) ELSE pushed
    IN  [g EXCEPT !.currentSpeed = speed,
                  !.currentGear = gear,
                  !.currentRPM = rpm,
                  !.history = kept,
                  !.sympathyReport = generateMechanicalSympathyReport(kept),
                  !.observed = Append(@, Sample(speed, gear, rpm))]

\* the component after mounting: the effect has recorded the initial values
LiveInit ==
    /\ grip = RecordTelemetry(
                 [fn |-> "live", currentSpeed |-> 145, currentGear |-> 4,
                  currentRPM |-> 7200, history |-> <<>>,
                  sympathyReport |-> InitialReport, observed |-> <<>>],
                 145, 4, 7200)
    /\ scan = ScanIdle
    /\ asm = AsmIdle
    /\ lapq = LapIdle
    /\ ui = UiIdle
    /\ dna = DnaIdle

\* the gears the 5 s timer may move to from prev
NextGears(prev) ==
    IF prev <= 1 THEN {2}
    ELSE IF prev >= 4 THEN {3}
    ELSE {Max(1, Min(4, prev - 1)), Max(1, Min(4, prev + 1))}

\* the gear-step timer fires
GearTimer ==
    /\ grip.fn = "live"
    /\ Len(grip.observed) <= MaxUpdates
    /\ \E next \in NextGears(grip.currentGear) :
          grip' = RecordTelemetry(grip, grip.currentSpeed, next,
                                  grip.currentRPM)
    /\ UNCHANGED <<scan, asm, lapq, ui, dna>>

\* the 2 s telemetry simulation fires; the effect runs when a value changed
TelemetryTick ==
    /\ grip.fn = "live"
    /\ Len(grip.observed) <= MaxUpdates
    /\ \E speed \in LiveSpeeds, rpm \in LiveRpms :
          /\ Abs(rpm - grip.currentRPM) <= 400
          /\ <<speed, rpm>> # <<grip.currentSpeed, grip.currentRPM>>
          /\ grip' = RecordTelemetry(grip, speed, grip.currentGear, rpm)
    /\ UNCHANGED <<scan, asm, lapq, ui, dna>>

LiveNext == GearTimer \/ TelemetryTick

SpecLive == LiveInit /\ [][LiveNext]_vars

\* C17: the counters of the report are the numbers of shifts of each class
\* in every sample observed since the component started, and no counter
\* decreases when a further sample arrives
C17_CountersCoverHistory ==
    /\ [](grip.sympathyReport.optimal = ShiftsOfClass(grip.observed, "optimal")
          /\ grip.sympathyReport.early = ShiftsOfClass(grip.observed, "early")
          /\ grip.sympathyReport.late = ShiftsOfClass(grip.observed, "late")
          /\ grip.sympathyReport.total =
                Len(grip.observed) - 1 - ShiftsOfClass(grip.observed, "none"))
    /\ [][/\ grip'.sympathyReport.total >= grip.sympathyReport.total
          /\ grip'.sympathyReport.optimal >= grip.sympathyReport.optimal
          /\ grip'.sympathyReport.early >= grip.sympathyReport.early
          /\ grip'.sympathyReport.late >= grip.sympathyReport.late]_vars

\* while every observed sample is still in the history the counters cover
\* all of them
CountersCoverRetainedWindow ==
    grip.history = grip.observed =>
        /\ grip.sympathyReport.optimal = ShiftsOfClass(grip.observed, "optimal")
        /\ grip.sympathyReport.early = ShiftsOfClass(grip.observed, "early")
        /\ grip.sympathyReport.late = ShiftsOfClass(grip.observed, "late")

(* ------------- chunk boundaries and the lines of both passes ------------ *)

\* files of up to MaxChunkLines terminated lines and a last line, read with
\* chunks of 1..MaxLineChunk characters
MaxChunkLines == 2
MaxLineChunk == 3

\* a blank line, a line without a comma and a row of vehicle 3
ChunkLineSet == { <<>>, <<"a", "b">>, <<"c", COMMA, "3">> }

ChunkFiles ==
    { Concat(body) \o last :
        body \in SeqsUpTo({l \o t : l \in ChunkLineSet, t \in Terminators},
                          MaxChunkLines),
        last \in ChunkLineSet }

\* the discovery pass and then the assembly pass read the same file with the
\* same chunk size
LinesInit ==
    /\ \E f \in ChunkFiles, c \in 1..MaxLineChunk :
          /\ scan = ScanStart(f, c)
          /\ asm = AsmStart(<<f>>, <<"3">>, c)
    /\ lapq = LapIdle
    /\ ui = UiIdle
    /\ grip = GripIdle
    /\ dna = DnaIdle

\* the assembly pass starts when the discovery pass has returned
LinesAsmChunk == scan.pc = "done" /\ AsmChunk

LinesAsmReturn == scan.pc = "done" /\ AsmReturn

LinesNext == ScanChunk \/ ScanReturn \/ LinesAsmChunk \/ LinesAsmReturn

SpecLines == LinesInit /\ [][LinesNext]_vars

\* the lines that are not blank, in order
NonBlank(lines) == SelectSeq(lines, LAMBDA l : trim(l) # <<>>)

IsPrefix(s, t) == Len(s) <= Len(t) /\ s = SubSeq(t, 1, Len(s))

\* the characters of the first n characters of file that end no line
LineText(file, n) ==
    SelectSeq(SubSeq(file, 1, Min(n, Len(file))), LAMBDA c : c \notin {LF, CR})

\* the loop of one pass, in the state p, has produced the first non-blank
\* lines of its file whole and in order, carries the unfinished line in
\* leftover, and has produced every non-blank line once when it has ended
LinesWholeOnceInOrder(p) ==
    /\ IsPrefix(NonBlank(p.emitted), NonBlank(SplitLines(p.file)))
    /\ p.pc = "loop" =>
          Concat(NonBlank(p.emitted)) \o p.leftover = LineText(p.file, p.offset)
    /\ p.pc = "done" =>
          NonBlank(p.emitted) = NonBlank(SplitLines(p.file))

KnownChannels ==
    {N_speed, N_nmot, N_gear, N_ath, N_pbrake_f, N_Steering_Angle}

\* a line is an accepted row of vehicle id whose channel has no field
IsUnknownChannelRow(line, id) ==
    IsAcceptedRow(line, id) /\ SampleOf(line).n \notin KnownChannels

\* the file without the target's rows of unknown channels (its first line
\* is kept)
KnownParts(parts, id) ==
    <<Head(parts)>>
        \o SelectSeq(Tail(parts), LAMBDA p : ~IsUnknownChannelRow(p, id))

\* the pass over the same file without those rows
KnownRun(a) ==
    IF KnownParts(a.parts, a.driverId) = a.parts THEN a
    ELSE AsmLoop(AsmStart(KnownParts(a.parts, a.driverId), a.driverId,
                          a.CHUNK_SIZE))

\* C20: the returned array is one the pass returns for the same file
\* without the target vehicle's rows whose channel is none of speed, nmot,
\* gear, ath, pbrake_f, Steering_Angle
C20_UnknownChannelsIgnored ==
    asm.pc = "done" =>
        asm.sortedData
            \in SortedDataOutcomes(Aggregate(<<>>, KnownRun(asm).result))

(* ---------------------- the end of a pipeline run ----------------------- *)

\* run r has ended: it delivered, it failed with its message, or it offered
\* the list of drivers and returned
RunEnded(r) == ui.runs[r].pc \in {"delivered", "failed", "offered"}

\* run r has a continuation that the event loop will run: an iteration or
\* the end of a pass, or the load of an auxiliary file
RunPending(r) == ui.runs[r].pc \in {"scan", "assemble", "auxiliary"}

\* C21: every run of handleProcess or finishLoading ends by delivering or
\* with the error reported: a run that has not ended always has a
\* continuation left, and a run one of whose reads failed has ended in
\* the error state
C21_RunsEndOrReport ==
    \A r \in Runs :
        /\ RunEnded(r) \/ RunPending(r)
        /\ ui.runs[r].readError => ui.runs[r].pc = "failed"

(* --------------------------- runs in flight ----------------------------- *)

\* the runs whose pass over the telemetry file has not completed
RunsParsing == {r \in Runs : ui.runs[r].pc \in {"scan", "assemble"}}

\* C22: at most one discovery or assembly run is in flight at any time,
\* whatever the user does, and onDataLoaded is invoked at most once
C22_OneParseInFlight ==
    /\ Cardinality(RunsParsing) <= 1
    /\ Len(ui.delivered) <= 1


(* ----------------- the driver list and the chosen file ------------------ *)

\* the discovery pass run to the end of its loop
RECURSIVE ScanLoop(_)
ScanLoop(s) ==
    IF s.offset < Len(s.file) THEN ScanLoop(ScanIteration(s)) ELSE s

\* the ids the discovery pass finds in a telemetry file
DiscoveredIn(file) ==
    Range(ScanLoop(ScanStart(Concat(file), UiChunkSize)).drivers)

\* C27: the driver list offered for selection is the scan result of the
\* file held in telemetryFile, and an assembly never looks for a driver id
\* in a file other than the one in which the id was discovered
C27_DriverListOfChosenFile ==
    /\ ui.parsedDrivers # None =>
          /\ ui.telemetryFile # None
          /\ Range(ui.parsedDrivers[1]) = DiscoveredIn(ui.telemetryFile[1])
    /\ \A r \in Runs :
          ui.runs[r].pc = "assemble" =>
              ui.runs[r].asm.driverId \in DiscoveredIn(ui.runs[r].file)


(* ------------------------------ progress -------------------------------- *)

\* run r takes a step
RunActs(r) == ui'.runs[r] # ui.runs[r]

\* the value a step of run r sets is in the range of the phase the run is
\* in: 0..50 in the scan loop, 50..90 in the assembly loop, 90..100 from the
\* end of the assembly on, and 100 when the data is delivered
InPhaseRange(r) ==
    /\ ui.runs[r].pc = "scan" /\ ui'.runs[r].pc \in {"scan", "failed", "offered"}
          => ui'.progress \in 0..50
    /\ ui.runs[r].pc = "assemble" /\ ui'.runs[r].pc \in {"assemble", "failed"}
          => ui'.progress \in 50..90
    /\ ui.runs[r].pc = "assemble" /\ ui'.runs[r].pc \in {"auxiliary", "delivered"}
          => ui'.progress \in 90..100
    /\ ui'.runs[r].pc = "delivered" => ui'.progress = 100

\* the values a step of a run sets are in the range of its phase
ProgressInPhaseRange == [][\A r \in Runs : RunActs(r) => InPhaseRange(r)]_vars

\* while the first run is the only one started, the progress never decreases
ProgressGrowsInFirstRun ==
    [][Len(ui.runs) = 1 /\ Len(ui'.runs) = 1
          => ui'.progress >= ui.progress]_vars

\* C26: while a pipeline run is in flight the reported progress never
\* decreases, and every value a run sets is in the range of its phase:
\* 0..50 in the discovery scan, 50..90 in the assembly, 90..100 in the
\* auxiliary parsing, and 100 when onDataLoaded is invoked
C26_ProgressMonotoneInPhase ==
    [][/\ \A r \in Runs : RunActs(r) => InPhaseRange(r)
       /\ (\E r \in Runs : RunPending(r)) => ui'.progress >= ui.progress]_vars

(* ------------------- TrackGrip: gear-mismatch alerts -------------------- *)

\* periods of the timers, in seconds: the telemetry simulation, the
\* gear-step timer and the interval of the mismatch check
TelemetryPeriod == 2
GearPeriod == 5
MismatchPeriod == 3

\* speeds the simulation takes here; one tick moves the speed by at most 15
AlertSpeeds == {145, 160, 175, 190}
AlertRpms == {7200, 7400}

\* the component after mounting, all timers armed
AlertInit ==
    /\ grip = [ fn |-> "alerts", currentSpeed |-> 145, currentGear |-> 4,
                currentRPM |-> 7200, telemetryDue |-> TelemetryPeriod,
                gearDue |-> GearPeriod, mismatchDue |-> MismatchPeriod,
                gearAlerts |-> <<>>, last |-> "mount", updated |-> FALSE ]
    /\ scan = ScanIdle
    /\ asm = AsmIdle
    /\ lapq = LapIdle
    /\ ui = UiIdle
    /\ dna = DnaIdle

\* one second passes while no timer is due
SecondPasses ==
    /\ grip.fn = "alerts"
    /\ grip.telemetryDue > 0 /\ grip.gearDue > 0 /\ grip.mismatchDue > 0
    /\ grip' = [grip EXCEPT !.telemetryDue = @ - 1, !.gearDue = @ - 1,
                            !.mismatchDue = @ - 1, !.last = "time"]
    /\ UNCHANGED <<scan, asm, lapq, ui, dna>>

\* the mismatch effect after a render with the given values: when one of
\* its dependencies changed, its cleanup clears the interval and a new
\* interval is set
MismatchEffect(g, speed, gear, rpm) ==
    IF <<speed, gear, rpm>> # <<g.currentSpeed, g.currentGear, g.currentRPM>>
    THEN [g EXCEPT !.currentSpeed = speed, !.currentGear = gear,
                   !.currentRPM = rpm, !.mismatchDue = MismatchPeriod]
    ELSE g

\* the telemetry simulation fires
AlertTelemetryTick ==
    /\ grip.fn = "alerts"
    /\ grip.telemetryDue = 0
    /\ \E speed \in AlertSpeeds, rpm \in AlertRpms :
          /\ Abs(speed - grip.currentSpeed) <= 15
          /\ Abs(rpm - grip.currentRPM) <= 400
          /\ grip' = [MismatchEffect(grip, speed, grip.currentGear, rpm)
                        EXCEPT !.telemetryDue = TelemetryPeriod,
                               !.last = "telemetry", !.updated = TRUE]
    /\ UNCHANGED <<scan, asm, lapq, ui, dna>>

\* the gear-step timer fires
AlertGearTimer ==
    /\ grip.fn = "alerts"
    /\ grip.gearDue = 0
    /\ \E next \in NextGears(grip.currentGear) :
          grip' = [MismatchEffect(grip, grip.currentSpeed, next,
                                  grip.currentRPM)
                     EXCEPT !.gearDue = GearPeriod, !.last = "gear"]
    /\ UNCHANGED <<scan, asm, lapq, ui, dna>>

\* the first three elements of a list
FirstThree(list) == SubSeq(list, 1, Min(3, Len(list)))

\* the interval of the mismatch check fires
MismatchCheck ==
    /\ grip.fn = "alerts"
    /\ grip.mismatchDue = 0
    /\ LET optimalGear == getOptimalGear(Int2Num(grip.currentSpeed))
           alert == [type |-> "gear-mismatch", severity |-> "warning",
                     current |-> grip.currentGear, optimal |-> optimalGear]
       IN  IF grip.currentGear # optimalGear
           THEN grip' = [grip EXCEPT
                           !.gearAlerts = FirstThree(<<alert>> \o @),
                           !.mismatchDue = MismatchPeriod,
                           !.last = "alert", !.updated = FALSE]
           ELSE grip' = [grip EXCEPT !.mismatchDue = MismatchPeriod,
                                     !.last = "check"]
    /\ UNCHANGED <<scan, asm, lapq, ui, dna>>

AlertNext ==
    \/ SecondPasses
    \/ AlertTelemetryTick
    \/ AlertGearTimer
    \/ MismatchCheck

\* time passes and every timer that is due fires
SpecAlert ==
    /\ AlertInit
    /\ [][AlertNext]_vars
    /\ WF_vars(SecondPasses)
    /\ WF_vars(AlertTelemetryTick)
    /\ WF_vars(AlertGearTimer)
    /\ WF_vars(MismatchCheck)

GearMismatch == grip.currentGear # getOptimalGear(Int2Num(grip.currentSpeed))

\* between two alerts a telemetry update has arrived
AlertsNoMoreOftenThanUpdates ==
    [][grip'.last = "alert" /\ grip.gearAlerts # <<>> => grip.updated]_vars

\* C23: whenever the gear differs from getOptimalGear(currentSpeed), a
\* gear-mismatch alert of severity warning is eventually emitted unless the
\* mismatch ends first, and between two alerts a telemetry update arrives
C23_MismatchAlertEmitted ==
    /\ GearMismatch ~> (grip.last = "alert" \/ ~GearMismatch)
    /\ [][grip'.last = "alert" /\ grip.gearAlerts # <<>> => grip.updated]_vars


(* ------------------ parseCSV: the auxiliary decoders -------------------- *)

\* auxiliary files have a header and up to MaxAuxLines lines of up to
\* MaxAuxCols columns
MaxAuxLines == 2
MaxAuxCols == 28

SEMI == ";"

\* parseFloat(cols[k]) with k counted from 0: NaN for a missing column
FloatAt(cols, k) == IF k < Len(cols) THEN parseFloat(cols[k + 1]) ELSE NaN

\* parseInt(cols[k])
IntAt(cols, k) == IF k < Len(cols) THEN parseInt(cols[k + 1]) ELSE NaN

\* new Date(cols[k]).getTime()
TimeAt(cols, k) == IF k < Len(cols) THEN DateGetTime(cols[k + 1]) ELSE NaN

\* the body of the loop of one decoder for one line: data after it
DecodeLine(type, data, rawLine) ==
    LET line == trim(rawLine)
        cols == split(line, IF type = "laps" THEN COMMA ELSE SEMI)
    IN  IF line = <<>> THEN data
        ELSE IF type = "weather"
        THEN IF Len(cols) < 4 THEN data
             ELSE Append(data, [timestamp |-> TimeAt(cols, 1),
                                airTemp   |-> FloatAt(cols, 2),
                                trackTemp |-> FloatAt(cols, 3),
                                humidity  |-> FloatAt(cols, 4),
                                rain      |-> FloatAt(cols, 8)])
        ELSE IF type = "laps"
        THEN IF Len(cols) < 9 THEN data
             ELSE Append(data, [lap       |-> IntAt(cols, 1),
                                time      |-> FloatAt(cols, 8),
                                timestamp |-> TimeAt(cols, 7)])
        ELSE IF Len(cols) < 24 THEN data
             ELSE Append(data, [number |-> IntAt(cols, 0),
                                lap    |-> IntAt(cols, 2),
                                flag   |-> IF 23 < Len(cols) THEN cols[24]
                                           ELSE <<"undefined">>,
                                s1     |-> FloatAt(cols, 24),
                                s2     |-> FloatAt(cols, 25),
                                s3     |-> FloatAt(cols, 26)])

RECURSIVE DecodeLines(_, _, _)
DecodeLines(type, data, lines) ==
    IF lines = <<>> THEN data
    ELSE DecodeLines(type, DecodeLine(type, data, Head(lines)), Tail(lines))

\* reader.onload of parseCSV for an auxiliary file: the records resolved
DecodeAux(type, text) == DecodeLines(type, <<>>, Tail(SplitLines(text)))

\* a line of n columns, each holding 5, for the separator of the type
RECURSIVE AuxLine(_, _)
AuxLine(sep, n) ==
    IF n = 0 THEN <<>>
    ELSE IF n = 1 THEN <<"5">>
    ELSE AuxLine(sep, n - 1) \o <<sep, "5">>

AuxTexts(type) ==
    LET sep == IF type = "laps" THEN COMMA ELSE SEMI
    IN  { <<"h">> \o Concat([i \in 1..Len(ns) |-> <<LF>> \o AuxLine(sep, ns[i])]) :
            ns \in SeqsUpTo(0..MaxAuxCols, MaxAuxLines) }

AuxInit ==
    /\ \E t \in Range(AuxTypes) :
          \E x \in AuxTexts(t) :
              lapq = [fn |-> "parseCSV", type |-> t, text |-> x,
                      pc |-> "call", data |-> <<>>]
    /\ scan = ScanIdle
    /\ asm = AsmIdle
    /\ ui = UiIdle
    /\ grip = GripIdle
    /\ dna = DnaIdle

AuxCall ==
    /\ lapq.pc = "call"
    /\ lapq' = [lapq EXCEPT !.pc = "done",
                            !.data = DecodeAux(lapq.type, lapq.text)]
    /\ UNCHANGED <<scan, asm, ui, grip, dna>>

AuxNext == AuxCall

SpecAux == AuxInit /\ [][AuxNext]_vars

\* the number of columns the layout of a type reads: weather up to column
\* 8, laps up to column 8, sections up to column 26
ColumnsRead(type) == IF type = "sections" THEN 27 ELSE 9

\* the lines after the header that are not blank and have every column the
\* layout reads
CompleteLines(type, text) ==
    SelectSeq(Tail(SplitLines(text)),
              LAMBDA l : /\ trim(l) # <<>>
                         /\ Len(split(trim(l),
                                      IF type = "laps" THEN COMMA ELSE SEMI))
                               >= ColumnsRead(type))

\* C24: the decoders emit a record exactly for the non-blank lines after
\* the header that have every column their layout reads, so no record has a
\* field read from a missing column
C24_ShortLinesSkipped ==
    lapq.pc = "done" /\ lapq.fn = "parseCSV" =>
        Len(lapq.data) = Len(CompleteLines(lapq.type, lapq.text))

\* the same for the laps decoder alone
LapsShortLinesSkipped ==
    lapq.pc = "done" /\ lapq.fn = "parseCSV" /\ lapq.type = "laps" =>
        Len(lapq.data) = Len(CompleteLines(lapq.type, lapq.text))


\* ---------------------------------------------------------------------
\* DriverDNA.tsx: the baseline request (fetchDNA, lines 26-89)
\* ---------------------------------------------------------------------

\* the number of baseline requests started in one behaviour, and the number
\* of telemetry points the playback cycles over
MaxRequests == 2
PlaybackLen == 3

\* the style labels a reply may carry, as their parts between " / "
StyleLabels == { <<"Late Braker", "Smooth">>, <<"Aggressive">>, <<"">> }

\* the JSON bodies of a reply: each field absent (None) or present
DnaBodies ==
    [ status  : {None, Some("success"), Some("error")},
      dna     : {None, Some(1), Some(2)},
      style   : {None} \cup { Some(l) : l \in StyleLabels },
      message : {None, Some(""), Some("No laps found for driver")} ]

\* what the service may answer: fetch rejects, a non-OK status, a body
\* that is not JSON, the JSON value null, or a JSON object
DnaReplies ==
    { [kind |-> "unreachable"], [kind |-> "notjson"], [kind |-> "null"] }
    \cup { [kind |-> "notok", statusText |-> s] :
             s \in {"", "Internal Server Error"} }
    \cup { [kind |-> "json", data |-> d] : d \in DnaBodies }

\* label.split(' / ')[k] || 'Unknown', k counted from 0
StylePart(parts, k) ==
    IF k < Len(parts) /\ parts[k + 1] # "" THEN parts[k + 1] ELSE "Unknown"

\* the catch block: setErrorMessage(err.message); setStatus('error')
DnaCatch(d, message) == [d EXCEPT !.errorMessage = message, !.status = "error"]

\* the state hooks after fetchDNA resumes with a reply (lines 45-85);
\* setBaselineDNA runs before data.style.style_label is read
DnaSettle(d, reply) ==
    IF reply.kind = "unreachable" THEN DnaCatch(d, "Failed to fetch")
    ELSE IF reply.kind = "notok"
    THEN DnaCatch(d, "API Error: " \o reply.statusText)
    ELSE IF reply.kind = "notjson"
    THEN DnaCatch(d, "Unexpected token < in JSON at position 0")
    ELSE IF reply.kind = "null"
    THEN DnaCatch(d, "Cannot read properties of null (reading 'debugLog')")
    ELSE IF reply.data.status = Some("success") /\ reply.data.dna # None
    THEN LET replaced == [d EXCEPT !.baselineDNA = reply.data.dna]
         IN  IF reply.data.style = None
             THEN DnaCatch(replaced,
                    "Cannot read properties of undefined (reading 'style_label')")
             ELSE [replaced EXCEPT
                      !.driverStyle =
                          [brake    |-> StylePart(reply.data.style[1], 0),
                           throttle |-> StylePart(reply.data.style[1], 1)],
                      !.status = "success"]
    ELSE [d EXCEPT !.errorMessage =
                       IF reply.data.message \in {None, Some("")}
                       THEN "No DNA data returned"
                       ELSE reply.data.message[1],
                   !.status = "error"]

DnaInit ==
    /\ dna = [ baselineDNA   |-> None,
               driverStyle   |-> [brake |-> "", throttle |-> ""],
               status        |-> "idle",
               errorMessage  |-> "",
               playbackIndex |-> 0,
               started       |-> 0,
               inflight      |-> {},
               last          |-> None ]
    /\ scan = ScanIdle
    /\ asm = AsmIdle
    /\ lapq = LapIdle
    /\ ui = UiIdle
    /\ grip = GripIdle

\* the effect of lines 26-89 runs (mount, or driverName or dataBasePath
\* changed): fetchDNA sets status 'loading', clears the message and sends
\* the request
DnaFetch ==
    /\ dna.started < MaxRequests
    /\ dna' = [dna EXCEPT !.status = "loading",
                          !.errorMessage = "",
                          !.started = @ + 1,
                          !.inflight = @ \cup {dna.started + 1},
                          !.last = None]
    /\ UNCHANGED <<scan, asm, lapq, ui, grip>>

\* the reply of request r arrives and fetchDNA runs to its end
DnaReply ==
    /\ \E r \in dna.inflight : \E reply \in DnaReplies :
          dna' = [DnaSettle(dna, reply) EXCEPT
                     !.inflight = @ \ {r},
                     !.last = Some([request |-> r, reply |-> reply,
                                    baselineDNA |-> dna.baselineDNA,
                                    driverStyle |-> dna.driverStyle])]
    /\ UNCHANGED <<scan, asm, lapq, ui, grip>>

\* the playback interval (lines 219-222) advances to the next point
DnaPlaybackTick ==
    /\ dna' = [dna EXCEPT !.playbackIndex = (@ + 1) % PlaybackLen,
                          !.last = None]
    /\ UNCHANGED <<scan, asm, lapq, ui, grip>>

DnaNext == DnaFetch \/ DnaReply \/ DnaPlaybackTick

SpecDna == DnaInit /\ [][DnaNext]_vars

\* a reply of a failed request: the service is unreachable, the status is
\* not OK, or the body is not an object with status 'success' and dna data
FailedReply(reply) ==
    \/ reply.kind # "json"
    \/ reply.data.status # Some("success")
    \/ reply.data.dna = None

\* fetchDNA has just run to its end
DnaSettled == dna.last # None

\* after a failed request the status is 'error', the message is not empty
\* and the baseline and the style are the ones from before the request
FailedRequestReported ==
    DnaSettled /\ FailedReply(dna.last[1].reply) =>
        /\ dna.status = "error"
        /\ dna.errorMessage # ""
        /\ dna.baselineDNA = dna.last[1].baselineDNA
        /\ dna.driverStyle = dna.last[1].driverStyle

\* C25: a failed baseline request ends in status 'error' with a non-empty
\* message and leaves the baseline profiles and the driver style as they
\* were, and the baseline is replaced only by a reply whose handling ends
\* in status 'success'
C25_FailedRequestKeepsBaseline ==
    /\ FailedRequestReported
    /\ DnaSettled /\ dna.baselineDNA # dna.last[1].baselineDNA =>
           dna.status = "success"


\* ---------------------------------------------------------------------
\* generateMechanicalSympathyReport on histories with the gears 1..6
\* ---------------------------------------------------------------------

\* the highest gear of a telemetry sample
MaxGear == 6

\* histories of two and of three samples with gears up to MaxGear
WideHistories ==
    { <<Sample(145, g1, r), Sample(145, g2, 7200)>> :
        g1 \in 1..MaxGear, g2 \in 1..MaxGear, r \in ShiftRpms }
    \cup
    { <<Sample(145, g1, r), Sample(145, g2, r), Sample(145, g3, 7200)>> :
        g1 \in 3..MaxGear, g2 \in 3..MaxGear, g3 \in 3..MaxGear,
        r \in {3000, 7147, 8500} }

WideReportInit ==
    /\ grip \in { [fn |-> "report", data |-> d, pc |-> "call",
                   sympathyReport |-> InitialReport] : d \in WideHistories }
    /\ scan = ScanIdle
    /\ asm = AsmIdle
    /\ lapq = LapIdle
    /\ ui = UiIdle
    /\ dna = DnaIdle

WideReportNext == ReportCall

SpecWideReport == WideReportInit /\ [][WideReportNext]_vars

\* the gears of the history are all among those optimalShiftRPM has an
\* upshift key for
GearsWithinTable ==
    \A i \in 1..Len(grip.data) : grip.data[i].gear <= 4

\* the counters add up when no sample is in gear 5 or 6
TotalIsSumWithinTable ==
    grip.pc = "done" /\ GearsWithinTable =>
        LET r == grip.sympathyReport
        IN  r.total = r.optimal + r.early + r.late

ProbeSpeeds ==
    { Norm(5 * k, 2) :
        k \in {0, 1380, 1746, 2062, 2476, 2477, 2478, 3040, 3041, 3042,
               3674, 3675, 3800} }

\* the speed lies below the table or in one of its ranges
SpeedCovered(speed) ==
    NumLt(speed, optimalGearMap[1].minSpeed) \/ GearMatches(speed) # {}

\* among the speeds below the table or in a range the gear does not fall
\* as the speed grows
GearMonotoneOnCoveredSpeeds ==
    grip.pc = "done" /\ ~isNaN(grip.speed) /\ SpeedCovered(grip.speed) =>
        \A s1 \in ProbeSpeeds :
            SpeedCovered(s1) /\ NumLe(s1, grip.speed) =>
                getOptimalGear(s1) <= grip.out

\* C29: for all speeds s1 <= s2, also above 183.7 and between two ranges,
\* getOptimalGear(s1) <= getOptimalGear(s2)
C29_GearMonotoneInSpeed ==
    grip.pc = "done" /\ ~isNaN(grip.speed) =>
        \A s1 \in ProbeSpeeds :
            NumLe(s1, grip.speed) => getOptimalGear(s1) <= grip.out


\* ---------------------------------------------------------------------
\* the value scale: parseTelemetryForDriver's points read by the analyzers
\* ---------------------------------------------------------------------

\* the longest run of samples above the threshold beyond the analyzer's
\* minimum length
MaxExtraRun == 2

DigitChars == <<"0", "1", "2", "3", "4", "5", "6", "7", "8", "9">>

\* the decimal text of a natural number
RECURSIVE Decimal(_)
Decimal(n) ==
    IF n < 10 THEN <<DigitChars[n + 1]>>
    ELSE Decimal(n \div 10) \o <<DigitChars[(n % 10) + 1]>>

\* the timestamp text of the k-th sample, k in 1..28: a day of January 1970
DayStamp(k) ==
    <<"1", "9", "7", "0", DASH, "0", "1", DASH>>
        \o (IF k < 10 THEN <<"0">> ELSE <<>>) \o Decimal(k)

\* the telemetry rows of vehicle 7 for the raw values of one channel, one
\* timestamp per value
ScaleRows(channel, raws) ==
    [k \in 1..Len(raws) |->
        AsmRow(channel, Decimal(raws[k]), DayStamp(k), <<"7">>)]

\* raw values 0..100: an optional sample at the threshold, then len
\* samples of the value v above it
RawRun(low, len, v) == low \o [k \in 1..len |-> v]

ScaleInit ==
    /\ \/ \E len \in 5..(6 + MaxExtraRun) : \E v \in {11, 20, 50, 100} :
          \E low \in {<<>>, <<10>>} :
              lapq = [fn |-> "scale", channel |-> N_pbrake_f,
                      raws |-> RawRun(low, len, v), pc |-> "raw",
                      data |-> <<>>, out |-> <<>>]
       \/ \E len \in 10..(11 + MaxExtraRun) : \E v \in {6, 20, 50, 100} :
          \E low \in {<<>>, <<5>>} :
              lapq = [fn |-> "scale", channel |-> N_ath,
                      raws |-> RawRun(low, len, v), pc |-> "raw",
                      data |-> <<>>, out |-> <<>>]
    /\ scan = ScanIdle
    /\ asm = AsmIdle
    /\ ui = UiIdle
    /\ grip = GripIdle
    /\ dna = DnaIdle

\* parseTelemetryForDriver on the rows: the row filter and parser of each
\* line, the aggregation by timestamp and the sort
ScaleAssemble ==
    /\ lapq.pc = "raw"
    /\ \E sorted \in SortedDataOutcomes(
                        Aggregate(<<>>,
                                  AsmLines(<<>>,
                                           ScaleRows(lapq.channel, lapq.raws),
                                           <<"7">>))) :
          lapq' = [lapq EXCEPT !.pc = "assembled", !.data = sorted]
    /\ UNCHANGED <<scan, asm, ui, grip, dna>>

\* the analyzer of the channel on the assembled points
ScaleAnalyze ==
    /\ lapq.pc = "assembled"
    /\ lapq' = [lapq EXCEPT
                  !.pc = "done",
                  !.out = IF lapq.channel = N_pbrake_f
                          THEN getSignificantBrakingSegment(lapq.data)
                          ELSE getSignificantThrottleSegment(lapq.data)]
    /\ UNCHANGED <<scan, asm, ui, grip, dna>>

ScaleNext == ScaleAssemble \/ ScaleAnalyze

SpecScale == ScaleInit /\ [][ScaleNext]_vars

\* the number of raw values above the analyzer's threshold (they are
\* consecutive in every lap of ScaleInit)
RawAbove(raws, threshold) ==
    Cardinality({k \in 1..Len(raws) : raws[k] > threshold})

\* every raw value was stored divided by 100
StoredScaled ==
    lapq.pc # "raw" =>
        /\ Len(lapq.data) = Len(lapq.raws)
        /\ \A k \in 1..Len(lapq.raws) :
              LET stored == IF lapq.channel = N_pbrake_f
                            THEN lapq.data[k].brake
                            ELSE lapq.data[k].throttle
              IN  stored = NumDiv100(Int2Num(lapq.raws[k]))

\* for raw values within 0..100 the analyzers find no segment
NoProfileFromAssembledLap ==
    lapq.pc = "done" => lapq.out = <<>>

\* C30: a lap assembled from at least 6 consecutive samples with raw
\* pbrake_f above 10 gives a 100-point braking profile, and one from at
\* least 11 consecutive samples with raw ath above 5 gives a 100-point
\* throttle profile
C30_ScaleAgreesWithThresholds ==
    lapq.pc = "done" =>
        /\ (lapq.channel = N_pbrake_f /\ RawAbove(lapq.raws, 10) >= 6) =>
              Len(lapq.out) = 100
        /\ (lapq.channel = N_ath /\ RawAbove(lapq.raws, 5) >= 11) =>
              Len(lapq.out) = 100

====
